---------------------------- MODULE Spec2Model ----------------------------
(***************************************************************************)
(* Client-side logic of the stray-cat adoption site: js/auth.js            *)
(* (AuthSystem) and the main application script (src/unnamed/part_000,     *)
(* the version that starts at line 633: search, adoption, recognition,     *)
(* mobile panel).                                                          *)
(*                                                                         *)
(* Strings are sequences of one-character strings, so that the regular     *)
(* expressions and the search scan are computed character by character.    *)
(* Every callback of the page is one action; a fetch is a request in       *)
(* inflight until one of its response actions delivers the answer.         *)
(***************************************************************************)
EXTENDS Integers, Sequences, FiniteSets, TLC

VARIABLES
    \* ---- validatePassword applied to an input (pure function)
    pwInput, pwResult,
    \* ---- matchesQuery applied to a cat and a query (pure function)
    qCat, qQuery, qResult,
    \* ---- cat list and search box (main script)
    allCats,            \* let allCats
    filteredCats,       \* let filteredCats
    catList,            \* .cat-list: [static: still the page's own markup, cards: the cats rendered]
    catSearchInput,     \* value of #catSearchInput
    catsFetch,          \* the /api/cats request of loadCatData: "pending" | "done"
    catsResponse,       \* history: what that request was answered with
    \* ---- recognition camera (main script)
    recognitionStream,  \* let recognitionStream: NoStream or a stream (its index in tracks)
    videoSrc,           \* recognitionVideo.srcObject
    tracks,             \* every stream getUserMedia returned: "running" | "stopped"
    gumPending,         \* getUserMedia promises of startRecognitionCamera not yet settled
    documentHidden,     \* document.hidden
    released,           \* history: the page was hidden/unloaded and start-camera not clicked since
    \* ---- the static file server (server.js)
    files,              \* the server's directory: what fs.readFile finds under each path
    requests,           \* the requests received: url, position of the handler, responses written
    \* ---- session and login state
    session,            \* server side: the user of the session cookie, NoUser if none
    loadSession,        \* the session when the page was loaded
    currentUser,        \* let currentUser (main script)
    userInfo,           \* the .user-info element: "none", or who created it: "main" | "auth"
    loginDone,          \* history: AuthSystem.login succeeded on this page, no logout since
    authCheck,          \* /api/current_user of checkAuthStatus (main script): "pending" | "done"
    userCheck,          \* /api/current_user of checkCurrentUser (auth.js): "pending" | "done"
    loginBtn,           \* #loginBtn and #registerBtn are displayed
    uploadBtn,          \* #uploadCatBtn is displayed
    adminBtn,           \* #adminBtn is displayed
    registerForm,       \* the values in the fields of #registerForm
    modal,              \* which modals are displayed
    \* ---- adoption, password reset, recognition
    pendingAdoptionCat, \* let pendingAdoptionCat
    adoptionStatus,     \* #adoptionStatus
    forgotStatus,       \* #forgotPasswordStatus
    resetStatus,        \* #resetPasswordStatus
    resetPasswordEmail, \* value of #resetPasswordEmail
    recognitionStatus,  \* #recognitionStatus
    recognitionResults, \* #recognitionResults
    fileSelected,       \* #recognitionFileInput has a file
    \* ---- requests and timers
    inflight,           \* the fetches of the form handlers not yet answered
    nextId,             \* number of the next request of this page load
    sent,               \* history: the request the last callback sent, NoReq if none
    settled,            \* history: the request whose response the last callback handled
    overlapped,         \* history: requests that shared their endpoint with another in flight
    timers,             \* pending setTimeout callbacks, by kind
    last,               \* history: what the last callback did and where it reported
    failedEps,          \* history: endpoints a request to which has failed on this page
    codeSentTo,         \* history: addresses a forgot-password request for which was answered 'sent'
    \* ---- mobile panel (main script)
    mobilePanel,        \* the panel is in the page (mobileStatusEl, mobileCommandVideo, ...)
    mobileCommandStream, \* let mobileCommandStream: NoStream or its index in mobileTracks
    mobileTracks,       \* every stream getUserMedia returned to startMobileCamera
    mobileGum,          \* pending getUserMedia promises of startMobileCamera, by caller
    mobileAutoActive,   \* let mobileAutoActive
    mobileAutoTimer,    \* let mobileAutoTimer: an interval is set
    mobileIntervals,    \* number of setInterval timers of startMobileAutoLoop not cleared
    mobileStatus,       \* #mobileStatus
    mobileReport,       \* #mobileReport
    \* ---- retreat and return of the mobile panel (main script)
    mobileUI,           \* shouldActivateMobileUI()
    mobilePanelRetreated, \* let mobilePanelRetreated
    storageAvailable,   \* window.sessionStorage can be used
    storedFlag,         \* session storage holds mobilePanelRetreated = 'true'
    desktopMode,        \* document.body has the class DESKTOP_MODE_CLASS
    fabShown,           \* #mobileCruiseFAB is displayed
    panelListeners,     \* setupMobileCommandCenter has added its document and window listeners
    \* ---- swipe gesture of the mobile panel (setupMobilePanelGestures)
    touches,            \* the fingers on the panel: where each went down and where it is
    startY,             \* let startY
    currentOffset,      \* let currentOffset
    dragging,           \* let dragging
    panelTransform,     \* panel.style.transform: NoTransform or the offset of translateY
    panelScrollTop      \* panel.scrollTop

pwVars     == <<pwInput, pwResult>>
searchVars == <<qCat, qQuery, qResult>>
catVars    == <<allCats, filteredCats, catList, catSearchInput, catsFetch, catsResponse>>
camVars    == <<recognitionStream, videoSrc, tracks, gumPending, documentHidden, released>>
srvVars    == <<files, requests>>
vars       == <<pwInput, pwResult, qCat, qQuery, qResult,
                allCats, filteredCats, catList, catSearchInput, catsFetch, catsResponse,
                recognitionStream, videoSrc, tracks, gumPending, documentHidden, released,
                files, requests,
                session, loadSession, currentUser, userInfo, loginDone, authCheck,
                userCheck, loginBtn, uploadBtn, adminBtn, registerForm,
                modal, pendingAdoptionCat, adoptionStatus, forgotStatus,
                resetStatus, resetPasswordEmail, recognitionStatus, recognitionResults,
                fileSelected, inflight, nextId, sent, settled, overlapped, timers, last,
                failedEps, codeSentTo, mobilePanel, mobileCommandStream, mobileTracks, mobileGum,
                mobileAutoActive, mobileAutoTimer, mobileIntervals, mobileStatus, mobileReport,
                mobileUI, mobilePanelRetreated, storageAvailable, storedFlag, desktopMode,
                fabShown, panelListeners,
                touches, startY, currentOffset, dragging, panelTransform, panelScrollTop>>

\* null for a string-valued cell (results, status texts)
NULL == "null"
\* null for a stream-valued cell; streams are numbered from 1
NoStream == 0
\* JavaScript's Boolean as the result cell of a call
BoolText(b) == IF b THEN "true" ELSE "false"

\* ------------------------------------------------------------------ bounds
MaxPwLen    == 9
MaxQueryLen == 4
MaxStreams  == 3
MaxGumPending == 2
MaxServerCats == 2
MaxRequests == 2
MaxMobileStreams == 2
MaxMobileGum == 1
MaxServerRequests == 2
MaxResetRequests == 3
MaxPanelGum == 2
MaxPendingTeardowns == 2
MaxFingers == 2

\* ------------------------------------------------------- character classes
Letters    == {"a", "b", "c", "d", "e", "f", "g", "h", "x", "y", "z", "A", "B", "Z"}
Digits     == {"0", "1", "2", "3", "4", "5", "6", "7", "8", "9"}
\* the punctuation the password regex lists: @$!%*#?&
PwSpecials == {"@", "$", "!", "%", "*", "#", "?", "&"}
Whitespace == {" "}

SeqsUpTo(S, n) == UNION {[1..k -> S] : k \in 0..n}

\* ======================================================== js/auth.js
\* /^[^\s@]+@[^\s@]+\.[^\s@]+$/ : one "@" (position i), a "." after it
\* (position j) with at least one character on each side, and neither
\* whitespace nor a second "@" anywhere else.
validateEmail(email) ==
    \E i \in 1..Len(email) : \E j \in 1..Len(email) :
        /\ 2 <= i /\ i + 2 <= j /\ j + 1 <= Len(email)
        /\ email[i] = "@"
        /\ email[j] = "."
        /\ \A k \in (1..Len(email)) \ {i} : email[k] \notin Whitespace \cup {"@"}

\* the always-accepting validator a missing check would amount to
validatePasswordNoCheck(password) == TRUE

\* /^(?=.*[A-Za-z])(?=.*\d)[A-Za-z\d@$!%*#?&]{8,}$/
validatePassword(password) ==
    /\ \E i \in 1..Len(password) : password[i] \in Letters
    /\ \E i \in 1..Len(password) : password[i] \in Digits
    /\ \A i \in 1..Len(password) : password[i] \in Letters \cup Digits \cup PwSpecials
    /\ Len(password) >= 8

\* ------------------------------------------- validatePassword as a function
PwChars == {"a", "1", "$", "_"}

InitPassword ==
    /\ pwInput \in SeqsUpTo(PwChars, MaxPwLen)
    /\ pwResult = NULL

CallValidatePassword ==
    /\ pwResult = NULL
    /\ pwResult' = BoolText(validatePassword(pwInput))
    /\ UNCHANGED pwInput

\* ======================================================== search (main script)
ToLowerChar(c) ==
    CASE c = "A" -> "a"
      [] c = "B" -> "b"
      [] c = "Z" -> "z"
      [] OTHER   -> c

toLowerCase(s) == [i \in 1..Len(s) |-> ToLowerChar(s[i])]

\* Array.prototype.join(' ') turns null, undefined and '' alike into '': a
\* field without text is the empty sequence
NoText == <<>>
FieldText(f) == f

RECURSIVE JoinSpace(_)
JoinSpace(fields) ==
    IF Len(fields) = 0 THEN <<>>
    ELSE IF Len(fields) = 1 THEN FieldText(fields[1])
    ELSE FieldText(fields[1]) \o <<" ">> \o JoinSpace(Tail(fields))

\* (text || '').toString().toLowerCase()
normalizeSearchText(text) == toLowerCase(text)

\* String.prototype.indexOf(ch, from), 0-based, -1 when absent
IndexOf(text, ch, from) ==
    LET hits == {i \in from..(Len(text) - 1) : text[i + 1] = ch}
    IN  IF hits = {} THEN -1
        ELSE CHOOSE i \in hits : \A k \in hits : i <= k

\* String.prototype.includes
Includes(text, term) ==
    \E i \in 0..(Len(text) - Len(term)) :
        \A k \in 1..Len(term) : text[i + k] = term[k]

\* the scan that looks each character up from the start of the text again
RECURSIVE FuzzyScanNoAdvance(_, _, _)
FuzzyScanNoAdvance(text, query, textIndex) ==
    IF query = <<>> THEN TRUE
    ELSE LET found == IndexOf(text, Head(query), textIndex)
         IN  IF found = -1 THEN FALSE
             ELSE FuzzyScanNoAdvance(text, Tail(query), found)

isFuzzyMatchNoAdvance(text, query) == FuzzyScanNoAdvance(text, query, 0)

\* for (const char of query) { textIndex = text.indexOf(char, textIndex); ... textIndex++ }
RECURSIVE FuzzyScan(_, _, _)
FuzzyScan(text, query, textIndex) ==
    IF query = <<>> THEN TRUE
    ELSE LET found == IndexOf(text, Head(query), textIndex)
         IN  IF found = -1 THEN FALSE
             ELSE FuzzyScan(text, Tail(query), found + 1)

isFuzzyMatch(text, query) == FuzzyScan(text, query, 0)

\* String.prototype.split(/\s+/): the pieces between maximal whitespace runs,
\* empty pieces at the ends included
RECURSIVE SplitScan(_, _, _, _)
SplitScan(s, i, cur, acc) ==
    IF i > Len(s) THEN Append(acc, cur)
    ELSE IF s[i] \in Whitespace
         THEN IF i > 1 /\ s[i - 1] \in Whitespace
              THEN SplitScan(s, i + 1, cur, acc)
              ELSE SplitScan(s, i + 1, <<>>, Append(acc, cur))
         ELSE SplitScan(s, i + 1, Append(cur, s[i]), acc)

SplitWhitespace(s) == SplitScan(s, 1, <<>>, <<>>)

\* .filter(Boolean) on strings: drops the empty ones
FilterNonEmpty(pieces) == SelectSeq(pieces, LAMBDA p : p # <<>>)

CatFields(cat) ==
    <<cat.name, cat.age, cat.gender, cat.description,
      cat.special_notes, cat.unique_markings, cat.last_known_location>>

matchesQuery(cat, query) ==
    LET haystack     == normalizeSearchText(JoinSpace(CatFields(cat)))
        cleanedQuery == toLowerCase(query)
        terms        == FilterNonEmpty(SplitWhitespace(cleanedQuery))
    IN  IF Len(terms) = 0 THEN TRUE
        ELSE \A t \in 1..Len(terms) :
                Includes(haystack, terms[t]) \/ isFuzzyMatch(haystack, terms[t])

\* ------------------------------------------------ matchesQuery as a function
MkCat(id, name, age, gender, description, adopted) ==
    [id |-> id, name |-> name, age |-> age, gender |-> gender,
     description |-> description, special_notes |-> NoText,
     unique_markings |-> NoText, last_known_location |-> NoText,
     is_adopted |-> adopted]

Cat1 == MkCat(1, <<"A", "b">>, <<"2">>, NoText, NoText, FALSE)
Cat2 == MkCat(2, <<"b", "a">>, NoText, NoText, <<"a">>, TRUE)
Cat3 == MkCat(3, <<"B">>, NoText, <<"a">>, NoText, FALSE)

QueryChars == {"a", "b", "A", " "}

InitSearch ==
    /\ qCat \in {Cat1, Cat2, Cat3}
    /\ qQuery \in SeqsUpTo(QueryChars, MaxQueryLen)
    /\ qResult = NULL

CallMatchesQuery ==
    /\ qResult = NULL
    /\ qResult' = BoolText(matchesQuery(qCat, qQuery))
    /\ UNCHANGED <<qCat, qQuery>>

\* ================================================ static file server
\* a URL as req.url holds it: "/" and the segments after it, the query string
\* last when the request has one
Urls ==
    {<<"/">>, <<"/", "index.html">>, <<"/", "main.js">>, <<"/", "css">>,
     <<"/", "?v=1">>, <<"/", "main.js", "?v=1">>}

IsQuery(part) == part = "?v=1"

\* let filePath = '.' + req.url; './' becomes './index.html'
filePath(url) ==
    IF <<".">> \o url = <<".", "/">> THEN <<".", "/", "index.html">> ELSE <<".">> \o url

NotFoundPage == <<".", "/", "404.html">>

\* the paths of the directory that may hold something
DirectoryPaths ==
    {<<".", "/", "index.html">>, <<".", "/", "main.js">>, <<".", "/", "css">>, NotFoundPage}

\* what fs.readFile(path) calls back with: "file" (the content), or error.code
ReadResults == {"file", "ENOENT", "EISDIR", "EACCES"}

readFile(path) == IF path \in DOMAIN files THEN files[path] ELSE "ENOENT"

\* res.writeHead(status); res.end(body)
Response(status, body) == [status |-> status, body |-> body]

Request(url, at, responses) == [url |-> url, at |-> at, responses |-> responses]

\* the directory as the README lists it (index.html, css/, js/...; no 404.html)
ProjectDirectory ==
    [path \in DirectoryPaths |->
        IF path = <<".", "/", "css">> THEN "EISDIR"
        ELSE IF path = NotFoundPage THEN "ENOENT"
        ELSE "file"]

\* the server has started and has received no request yet
ServerIdle == files = ProjectDirectory /\ requests = <<>>

\* the same over every content of the directory: files missing or unreadable,
\* with and without 404.html; no file has a '?' in its name
ServerStarted ==
    /\ files \in [DirectoryPaths -> ReadResults]
    /\ files[<<".", "/", "css">>] \in {"EISDIR", "ENOENT"}
    /\ requests = <<>>

\* the handler of http.createServer, up to the call of fs.readFile(filePath)
ReceiveRequest(url) ==
    /\ Len(requests) < MaxServerRequests
    /\ requests' = Append(requests, Request(url, "readFile", <<>>))
    /\ UNCHANGED files

\* the callback of fs.readFile(filePath, ...)
ReadFileCallback(i) ==
    LET req    == requests[i]
        result == readFile(filePath(req.url))
    IN  /\ req.at = "readFile"
        /\ requests' =
              [requests EXCEPT ![i] =
                  IF result = "file"
                  THEN Request(req.url, "done",
                               Append(req.responses, Response(200, filePath(req.url))))
                  ELSE IF result = "ENOENT"
                  THEN Request(req.url, "readFile404", req.responses)
                  ELSE Request(req.url, "done",
                               Append(req.responses, Response(500, <<"Server Error", result>>)))]
        /\ UNCHANGED files

\* the callback of fs.readFile('./404.html', ...)
ReadFile404Callback(i) ==
    LET req == requests[i]
    IN  /\ req.at = "readFile404"
        /\ requests' =
              [requests EXCEPT ![i] =
                  Request(req.url, "done",
                          Append(req.responses,
                                 Response(404, IF readFile(NotFoundPage) = "file"
                                               THEN NotFoundPage
                                               ELSE <<"<h1>404 Not Found</h1>">>)))]
        /\ UNCHANGED files

\* ================================================= cat list and search box
\* the four cats of fallbackToHardcodedData; their names stand for the
\* Chinese names of the source
HardcodedCats ==
    <<MkCat(1, <<"x">>, <<"2">>, <<"f">>, <<"d">>, FALSE),
      MkCat(2, <<"y">>, <<"1">>, <<"g">>, <<"e">>, FALSE),
      MkCat(3, <<"z">>, <<"3">>, <<"f">>, <<"h">>, FALSE),
      MkCat(4, <<"c">>, <<"1">>, <<"g">>, <<"a">>, FALSE)>>

\* what GET /api/cats may answer with a JSON array: up to MaxServerCats cats
ServerCatLists ==
    {l \in SeqsUpTo({Cat1, Cat2, Cat3}, MaxServerCats) :
        \A i \in 1..Len(l) : \A j \in 1..Len(l) : l[i] = l[j] => i = j}

\* what the user may have in the search box
SearchTexts == {<<>>, <<" ">>, <<"a">>, <<"b", " ">>, <<"A", "b">>, <<"z">>, <<"2">>, <<"b", "b">>}

\* String.prototype.trim
RECURSIVE TrimLeft(_)
TrimLeft(s) == IF s # <<>> /\ Head(s) \in Whitespace THEN TrimLeft(Tail(s)) ELSE s

RECURSIVE TrimRight(_)
TrimRight(s) ==
    IF s # <<>> /\ s[Len(s)] \in Whitespace THEN TrimRight(SubSeq(s, 1, Len(s) - 1)) ELSE s

Trim(s) == TrimRight(TrimLeft(s))

\* renderCatCards(cats): one card per cat, in order (<<>>: the 'no-cats' notice)
renderCatCards(cats) == [static |-> FALSE, cards |-> cats]

\* an answer to GET /api/cats: response.ok, what response.json() makes of the
\* body ("array", "object", "unparsable"; "none": the fetch itself rejected)
\* and the array when the body is one
CatsAnswer(ok, body, cats) == [ok |-> ok, body |-> body, cats |-> cats]
NoCatsAnswer == CatsAnswer(TRUE, "pending", <<>>)

\* the answers that end in the .catch of loadCatData
RejectedCatsAnswers ==
    {CatsAnswer(FALSE, "none", <<>>),
     CatsAnswer(TRUE, "unparsable", <<>>), CatsAnswer(FALSE, "unparsable", <<>>)}

\* state of the cat view when the DOMContentLoaded handler has run
CatsAtLoad ==
    /\ allCats = <<>>
    /\ filteredCats = <<>>
    /\ catList = [static |-> TRUE, cards |-> <<>>]
    /\ catSearchInput = <<>>
    /\ catsFetch = "pending"
    /\ catsResponse = NoCatsAnswer

\* window.location.reload(): the script starts over
ReloadCats ==
    /\ allCats' = <<>>
    /\ filteredCats' = <<>>
    /\ catList' = [static |-> TRUE, cards |-> <<>>]
    /\ catSearchInput' = <<>>
    /\ catsFetch' = "pending"
    /\ catsResponse' = NoCatsAnswer

\* ============================================ page, session and requests
\* a user object as /api/current_user and /api/login return it; NoUser stands
\* for null and for {} (both fail the tests `user.id` and `currentUser`)
MkUser(id, verified, admin) == [id |-> id, is_verified |-> verified, is_admin |-> admin]
NoUser == MkUser(0, FALSE, FALSE)
Users  == {MkUser(1, TRUE, FALSE), MkUser(2, FALSE, FALSE)}

NoCat == MkCat(0, NoText, NoText, NoText, NoText, FALSE)

ModalTypes == {"login", "register", "forgotPassword", "resetPassword", "adoption"}
TimerKinds == {"openReset", "resetDone", "closeAdoption",
               "panelTransitionEnd", "teardown", "desktopReload", "snapBack"}

\* a fetch in flight: its endpoint and what the handlers close over
Req(id, ep, cat, src, email) ==
    [id |-> id, ep |-> ep, cat |-> cat, src |-> src, email |-> email]
NoReq == Req(0, "none", 0, "none", <<>>)

\* what the callback that ran last did: who started it ("user", "response",
\* "timer"), whether it ended in an error outcome, where it reported it
\* (alert(), console.*, an error text in the operation's status element) and
\* the field values it read
\* (Args: the values a submit handler read from its form's fields)
Args(name, email, password, confirm, text) ==
    [name |-> name, email |-> email, password |-> password,
     confirm |-> confirm, text |-> text]
NoArgs == Args(<<>>, <<>>, <<>>, <<>>, <<>>)

EffRead(kind, op, err, alert, console, status, args) ==
    [kind |-> kind, op |-> op, err |-> err,
     alert |-> alert, console |-> console, status |-> status, args |-> args]

Eff(kind, op, err, alert, console, status) ==
    EffRead(kind, op, err, alert, console, status, NoArgs)

\* a status element: the text shown and the request it reports on (0: none)
Status(text, req) == [text |-> text, req |-> req]

EmailA == <<"a", "@", "b", ".", "c">>

\* state of auth.js and of the main script when both DOMContentLoaded
\* handlers have run: two /api/current_user requests are in flight
PageAtLoad ==
    /\ currentUser = NoUser
    /\ loadSession = session
    /\ userInfo = "none"
    /\ loginDone = FALSE
    /\ authCheck = "pending"
    /\ userCheck = "pending"
    /\ loginBtn = TRUE
    /\ uploadBtn = FALSE
    /\ adminBtn = FALSE
    /\ registerForm = NoArgs
    /\ modal = [m \in ModalTypes |-> FALSE]
    /\ pendingAdoptionCat = NoCat
    /\ adoptionStatus = Status("hidden", 0)
    /\ forgotStatus = "hidden"
    /\ resetStatus = "hidden"
    /\ resetPasswordEmail = <<>>
    /\ recognitionResults = Status("placeholder", 0)
    /\ fileSelected = FALSE
    /\ inflight = {}
    /\ nextId = 1
    /\ sent = NoReq
    /\ settled = NoReq
    /\ overlapped = {}
    /\ timers = [k \in TimerKinds |-> 0]
    /\ last = Eff("load", "DOMContentLoaded", FALSE, FALSE, TRUE, FALSE)
    /\ failedEps = {}
    /\ codeSentTo = {}

\* panel.style.transform = ''
NoTransform == 0 - 1

\* the closure of setupMobilePanelGestures before any touch
GestureIdle ==
    /\ touches = <<>>
    /\ startY = 0
    /\ currentOffset = 0
    /\ dragging = FALSE
    /\ panelTransform = NoTransform
    /\ panelScrollTop = 0

\* setupMobileCommandCenter and setupMobileCruiseFAB have run in a session
\* that has not stored the retreat flag (mobilePanel: the panel has been
\* injected, which happens on a mobile browser only); storage says whether
\* window.sessionStorage can be used
MobileLoaded(storage) ==
    /\ mobileCommandStream = NoStream
    /\ mobileTracks = <<>>
    /\ mobileGum = <<>>
    /\ mobileAutoActive = FALSE
    /\ mobileAutoTimer = FALSE
    /\ mobileIntervals = 0
    /\ mobileStatus = Status("initial", 0)
    /\ mobileReport = Status("initial", 0)
    /\ mobileUI = mobilePanel
    /\ mobilePanelRetreated = FALSE
    /\ storageAvailable = storage
    /\ storedFlag = FALSE
    /\ desktopMode = FALSE
    /\ fabShown = FALSE
    /\ panelListeners = mobilePanel
    /\ GestureIdle

MobileAtLoad == MobileLoaded(TRUE)

\* isMobilePanelRetreatedInStorage(): false when the storage cannot be used
isMobilePanelRetreatedInStorage == storageAvailable /\ storedFlag

\* the same, as the next state of a (re)load
PageReloaded ==
    /\ currentUser' = NoUser
    /\ loadSession' = session'
    /\ userInfo' = "none"
    /\ loginDone' = FALSE
    /\ authCheck' = "pending"
    /\ userCheck' = "pending"
    /\ loginBtn' = TRUE
    /\ uploadBtn' = FALSE
    /\ adminBtn' = FALSE
    /\ registerForm' = NoArgs
    /\ modal' = [m \in ModalTypes |-> FALSE]
    /\ pendingAdoptionCat' = NoCat
    /\ adoptionStatus' = Status("hidden", 0)
    /\ forgotStatus' = "hidden"
    /\ resetStatus' = "hidden"
    /\ resetPasswordEmail' = <<>>
    /\ recognitionResults' = Status("placeholder", 0)
    /\ fileSelected' = FALSE
    /\ inflight' = {}
    /\ nextId' = 1
    /\ sent' = NoReq
    /\ settled' = NoReq
    /\ overlapped' = {}
    /\ timers' = [k \in TimerKinds |-> 0]
    /\ last' = Eff("load", "DOMContentLoaded", FALSE, FALSE, TRUE, FALSE)
    /\ failedEps' = {}
    /\ codeSentTo' = {}
    /\ ReloadCats
    /\ recognitionStream' = NoStream
    /\ videoSrc' = NoStream
    /\ tracks' = <<>>
    /\ gumPending' = 0
    /\ documentHidden' = FALSE
    /\ released' = FALSE
    /\ recognitionStatus' = Status("initial", 0)
    /\ mobileCommandStream' = NoStream
    /\ mobileTracks' = <<>>
    /\ mobileGum' = <<>>
    /\ mobileAutoActive' = FALSE
    /\ mobileAutoTimer' = FALSE
    /\ mobileIntervals' = 0
    \* setupMobileCommandCenter, then setupMobileCruiseFAB, in the new page: the
    \* session storage is all that is left of the old one
    /\ UNCHANGED <<mobileUI, storageAvailable, storedFlag>>
    /\ desktopMode' = FALSE
    /\ mobilePanelRetreated' = (mobileUI /\ isMobilePanelRetreatedInStorage)
    /\ mobilePanel' = (mobileUI /\ ~isMobilePanelRetreatedInStorage)
    /\ panelListeners' = (mobileUI /\ ~isMobilePanelRetreatedInStorage)
    /\ fabShown' = (mobileUI /\ isMobilePanelRetreatedInStorage)
    /\ touches' = <<>>
    /\ startY' = 0
    /\ currentOffset' = 0
    /\ dragging' = FALSE
    /\ panelTransform' = NoTransform
    /\ panelScrollTop' = 0
    /\ mobileStatus' = Status("initial", 0)
    /\ mobileReport' = Status("initial", 0)


\* ------------------------------------------------------------ frame groups
authVars  == <<session, loadSession, currentUser, userInfo, loginDone, authCheck, userCheck,
               loginBtn, uploadBtn, adminBtn>>
formVars  == <<registerForm>>
gestureVars == <<touches, startY, currentOffset, dragging, panelTransform, panelScrollTop>>
panelVars == <<mobileUI, mobilePanelRetreated, storageAvailable, storedFlag, desktopMode,
               fabShown, panelListeners, gestureVars>>
adoptVars == <<pendingAdoptionCat, adoptionStatus>>
resetVars == <<forgotStatus, resetStatus, resetPasswordEmail>>
recVars   == <<recognitionStatus, recognitionResults, fileSelected>>
mobVars   == <<mobilePanel, mobileCommandStream, mobileTracks, mobileGum,
               mobileAutoActive, mobileAutoTimer, mobileIntervals, mobileStatus, mobileReport>>
netVars   == <<inflight, nextId, sent, settled, overlapped>>
\* what no handler of auth.js or of the adoption/recognition code writes
otherVars == <<pwVars, searchVars, catVars, camVars, srvVars>>
\* everything but the two pure-function harnesses, the cat view and the camera
pageVars  == <<authVars, formVars, panelVars, modal, adoptVars, resetVars, recVars, mobVars,
               netVars, timers, last, failedEps, codeSentTo>>

\* the requests in flight to the endpoint ep
InFlightTo(ep) == {r \in inflight : r.ep = ep}

\* how many requests a page sends before the count stops: a password reset
\* comes after the forgot-password requests and may follow MaxRequests of them
RequestLimit(ep) == IF ep = "reset-password" THEN MaxResetRequests ELSE MaxRequests

\* fetch(...) from a handler: a new request in flight. sent is the request
\* the callback sent; overlapped collects the requests that were in flight
\* together with another one to the same endpoint
Send(ep, cat, src, email) ==
    /\ nextId <= RequestLimit(ep)
    /\ inflight' = inflight \cup {Req(nextId, ep, cat, src, email)}
    /\ nextId' = nextId + 1
    /\ sent' = Req(nextId, ep, cat, src, email)
    /\ settled' = NoReq
    /\ overlapped' = IF InFlightTo(ep) = {} THEN overlapped
                     ELSE overlapped \cup {r.id : r \in InFlightTo(ep)} \cup {nextId}

\* a callback that neither sends nor handles a response
NoSend ==
    /\ sent' = NoReq
    /\ settled' = NoReq
    /\ UNCHANGED <<inflight, nextId, overlapped>>

\* the response to request r has been delivered to its handlers (settled);
\* failedEps collects the endpoints a request to which has failed, codeSentTo
\* the addresses of the forgot-password requests answered with message and
\* email_sent
Settle(r, failed) ==
    /\ inflight' = inflight \ {r}
    /\ failedEps' = IF failed THEN failedEps \cup {r.ep} ELSE failedEps
    /\ codeSentTo' = IF ~failed /\ r.ep = "forgot-password"
                     THEN codeSentTo \cup {r.email} ELSE codeSentTo
    /\ sent' = NoReq
    /\ settled' = r
    /\ UNCHANGED <<nextId, overlapped>>

SetTimer(k)   == timers' = [timers EXCEPT ![k] = @ + 1]
TimerFires(k) == timers[k] > 0 /\ timers' = [timers EXCEPT ![k] = @ - 1]

\* AuthSystem.openModal / closeModal
openModal(m, type)  == [m EXCEPT ![type] = TRUE]
closeModal(m, type) == [m EXCEPT ![type] = FALSE]

\* ------------------------------------------------------------ cat view
\* loadCatData, .then(cats => ...): the body parsed as JSON, whatever the
\* status of the response (response.ok is not looked at)
CatsResponseJson(ok, cats, isArray) ==
    /\ catsFetch = "pending"
    /\ catsFetch' = "done"
    /\ catsResponse' = CatsAnswer(ok, IF isArray THEN "array" ELSE "object", cats)
    /\ allCats' = IF isArray THEN cats ELSE <<>>
    /\ filteredCats' = allCats'
    /\ catList' = renderCatCards(filteredCats')
    /\ last' = Eff("response", "loadCatData", FALSE, FALSE, FALSE, FALSE)
    /\ NoSend
    /\ UNCHANGED catSearchInput

\* loadCatData, .catch: network error or unparsable body
fallbackToHardcodedData ==
    /\ catsFetch = "pending"
    /\ catsFetch' = "done"
    /\ catsResponse' \in RejectedCatsAnswers
    /\ allCats' = HardcodedCats
    /\ filteredCats' = allCats'
    /\ catList' = renderCatCards(filteredCats')
    /\ last' = Eff("response", "loadCatData", TRUE, FALSE, TRUE, FALSE)
    /\ NoSend
    /\ UNCHANGED catSearchInput

\* setupCatSearch: the 'input' listener
SearchInput(text) ==
    LET query == Trim(text)
    IN  /\ catSearchInput' = text
        /\ filteredCats' = IF query = <<>> THEN allCats
                           ELSE SelectSeq(allCats, LAMBDA cat : matchesQuery(cat, query))
        /\ catList' = renderCatCards(filteredCats')
        /\ last' = Eff("user", "search", FALSE, FALSE, FALSE, FALSE)
        /\ NoSend
        /\ UNCHANGED <<allCats, catsFetch, catsResponse>>

\* ------------------------------------------------- /api/current_user checks
\* what the server may answer to a check sent at load: the session then or now
CheckAnswers == {loadSession, session}

\* main script, updateUIAfterLogin(user): .user-info is added if not present
mainUserInfoAfterLogin == IF userInfo = "none" THEN "main" ELSE userInfo

\* main script, checkAuthStatus .then(user => ...)
AuthStatusResponse(user) ==
    /\ authCheck = "pending"
    /\ authCheck' = "done"
    /\ currentUser' = IF user.id # 0 THEN user ELSE NoUser
    /\ userInfo' = IF user.id # 0 THEN mainUserInfoAfterLogin ELSE "none"
    /\ loginBtn' = (user.id = 0)
    /\ uploadBtn' = (user.id # 0)
    /\ adminBtn' = IF user.id # 0 THEN (adminBtn \/ user.is_admin) ELSE FALSE
    /\ last' = Eff("response", "checkAuthStatus", FALSE, FALSE, user.id # 0, FALSE)
    /\ UNCHANGED <<session, loadSession, loginDone, userCheck>>
    /\ UNCHANGED <<formVars, panelVars, modal, adoptVars, resetVars, recVars, mobVars, otherVars>>
    /\ NoSend /\ UNCHANGED <<timers, failedEps, codeSentTo>>

\* main script, checkAuthStatus .catch
AuthStatusFailure ==
    /\ authCheck = "pending"
    /\ authCheck' = "done"
    /\ currentUser' = NoUser
    /\ userInfo' = "none"
    /\ loginBtn' = TRUE
    /\ uploadBtn' = FALSE
    /\ adminBtn' = FALSE
    /\ last' = Eff("response", "checkAuthStatus", TRUE, FALSE, TRUE, FALSE)
    /\ UNCHANGED <<session, loadSession, loginDone, userCheck>>
    /\ UNCHANGED <<formVars, panelVars, modal, adoptVars, resetVars, recVars, mobVars, otherVars>>
    /\ NoSend /\ UNCHANGED <<timers, failedEps, codeSentTo>>

\* auth.js, checkCurrentUser .then(user => ...): updateUIAfterLogin(user) of
\* AuthSystem replaces .user-info and binds AuthSystem.logout
CurrentUserResponse(user) ==
    /\ userCheck = "pending"
    /\ userCheck' = "done"
    /\ userInfo' = IF user.id # 0 THEN "auth" ELSE userInfo
    /\ loginBtn' = IF user.id # 0 THEN FALSE ELSE loginBtn
    /\ uploadBtn' = IF user.id # 0 THEN (user.is_verified \/ user.is_admin) ELSE FALSE
    /\ adminBtn' = IF user.id # 0 THEN (adminBtn \/ user.is_admin) ELSE FALSE
    /\ last' = Eff("response", "checkCurrentUser", FALSE, FALSE, FALSE, FALSE)
    /\ UNCHANGED <<session, loadSession, currentUser, loginDone, authCheck>>
    /\ UNCHANGED <<formVars, panelVars, modal, adoptVars, resetVars, recVars, mobVars, otherVars>>
    /\ NoSend /\ UNCHANGED <<timers, failedEps, codeSentTo>>

\* auth.js, checkCurrentUser .catch
CurrentUserFailure ==
    /\ userCheck = "pending"
    /\ userCheck' = "done"
    /\ last' = Eff("response", "checkCurrentUser", TRUE, FALSE, TRUE, FALSE)
    /\ UNCHANGED <<session, loadSession, currentUser, userInfo, loginDone, authCheck>>
    /\ UNCHANGED <<loginBtn, uploadBtn, adminBtn>>
    /\ UNCHANGED <<formVars, panelVars, modal, adoptVars, resetVars, recVars, mobVars, otherVars>>
    /\ NoSend /\ UNCHANGED <<timers, failedEps, codeSentTo>>

\* the user reloads the page, or logout() of the main script does
Reload ==
    /\ UNCHANGED <<session, pwVars, searchVars, srvVars>>
    /\ PageReloaded

\* ------------------------------------------------------------------ modals
\* #loginBtn, #registerBtn / #joinUsBtn: while they are displayed
ClickLoginBtn ==
    /\ loginBtn
    /\ modal' = openModal(modal, "login")
    /\ last' = Eff("user", "openModal", FALSE, FALSE, FALSE, FALSE)
    /\ UNCHANGED <<authVars, formVars, panelVars, adoptVars, resetVars, recVars, mobVars, otherVars>>
    /\ NoSend /\ UNCHANGED <<timers, failedEps, codeSentTo>>

ClickRegisterBtn ==
    /\ loginBtn
    /\ modal' = openModal(modal, "register")
    /\ last' = Eff("user", "openModal", FALSE, FALSE, FALSE, FALSE)
    /\ UNCHANGED <<authVars, formVars, panelVars, adoptVars, resetVars, recVars, mobVars, otherVars>>
    /\ NoSend /\ UNCHANGED <<timers, failedEps, codeSentTo>>

\* the links inside the modals: #showRegister, #showLogin, #showForgotPassword,
\* #showLoginFromForgot
SwitchModal(from, to) ==
    /\ modal[from]
    /\ <<from, to>> \in {<<"login", "register">>, <<"register", "login">>,
                         <<"login", "forgotPassword">>, <<"forgotPassword", "login">>}
    /\ modal' = openModal(closeModal(modal, from), to)
    /\ last' = Eff("user", "switchModal", FALSE, FALSE, FALSE, FALSE)
    /\ UNCHANGED <<authVars, formVars, panelVars, adoptVars, resetVars, recVars, mobVars, otherVars>>
    /\ NoSend /\ UNCHANGED <<timers, failedEps, codeSentTo>>

\* .close buttons and clicks on the backdrop of the four AuthSystem modals
CloseAuthModal(type) ==
    /\ type \in ModalTypes \ {"adoption"}
    /\ modal[type]
    /\ modal' = closeModal(modal, type)
    /\ last' = Eff("user", "closeModal", FALSE, FALSE, FALSE, FALSE)
    /\ UNCHANGED <<authVars, formVars, panelVars, adoptVars, resetVars, recVars, mobVars, otherVars>>
    /\ NoSend /\ UNCHANGED <<timers, failedEps, codeSentTo>>

\* ====================================================== recognition camera
RunningStreams == {s \in 1..Len(tracks) : tracks[s] = "running"}

\* stopRecognitionCamera: the new values of recognitionStream, videoSrc, tracks
stopRecognitionCamera ==
    /\ tracks' = IF recognitionStream # NoStream
                 THEN [tracks EXCEPT ![recognitionStream] = "stopped"]
                 ELSE tracks
    /\ recognitionStream' = NoStream
    /\ videoSrc' = NoStream

CameraAtLoad ==
    /\ recognitionStream = NoStream
    /\ videoSrc = NoStream
    /\ tracks = <<>>
    /\ gumPending = 0
    /\ documentHidden = FALSE
    /\ recognitionStatus = Status("initial", 0)
    /\ released = FALSE

\* what the camera callbacks of the recognition section leave alone
OutsideRecognitionCamera ==
    <<authVars, formVars, panelVars, modal, adoptVars, resetVars, recognitionResults, fileSelected,
      timers, failedEps, codeSentTo, pwVars, searchVars, catVars, srvVars>>

\* click on #startCameraBtn
startRecognitionCamera ==
    /\ ~documentHidden
    /\ released' = FALSE
    /\ IF recognitionStream # NoStream
       THEN /\ recognitionStatus' = Status("camera-already-on", 0)
            /\ UNCHANGED gumPending
       ELSE /\ gumPending < MaxGumPending
            /\ recognitionStatus' = Status("requesting-permission", 0)
            /\ gumPending' = gumPending + 1
    /\ last' = Eff("user", "startRecognitionCamera", FALSE, FALSE, FALSE, FALSE)
    /\ NoSend
    /\ UNCHANGED <<recognitionStream, videoSrc, tracks, documentHidden>>
    /\ UNCHANGED <<OutsideRecognitionCamera, mobVars>>

\* getUserMedia(...).then(stream => ...)
CameraGranted ==
    /\ gumPending > 0
    /\ Len(tracks) < MaxStreams
    /\ gumPending' = gumPending - 1
    /\ tracks' = Append(tracks, "running")
    /\ recognitionStream' = Len(tracks) + 1
    /\ videoSrc' = Len(tracks) + 1
    /\ recognitionStatus' = Status("camera-on", 0)
    /\ last' = Eff("grant", "startRecognitionCamera", FALSE, FALSE, FALSE, FALSE)
    /\ NoSend
    /\ UNCHANGED <<documentHidden, released>>
    /\ UNCHANGED <<OutsideRecognitionCamera, mobVars>>

\* getUserMedia(...).catch(error => ...)
CameraDenied ==
    /\ gumPending > 0
    /\ gumPending' = gumPending - 1
    /\ recognitionStatus' = Status("camera-failed", 0)
    /\ last' = Eff("grant", "startRecognitionCamera", TRUE, FALSE, TRUE, TRUE)
    /\ NoSend
    /\ UNCHANGED <<recognitionStream, videoSrc, tracks, documentHidden, released>>
    /\ UNCHANGED <<OutsideRecognitionCamera, mobVars>>


\* ------------------------------------------------------------------- login
LoginEmails    == {<<>>, <<"a">>, EmailA}
LoginPasswords == {<<>>, <<"x">>}

\* AuthSystem.handleLogin: submit of #loginForm (inside the login modal)
handleLogin(email, password) ==
    /\ modal["login"]
    /\ IF email = <<>> \/ password = <<>>
       THEN /\ last' = EffRead("user", "login", TRUE, TRUE, FALSE, FALSE,
                               Args(<<>>, email, password, <<>>, <<>>))
            /\ NoSend
       ELSE IF ~validateEmail(email)
       THEN /\ last' = EffRead("user", "login", TRUE, TRUE, FALSE, FALSE,
                               Args(<<>>, email, password, <<>>, <<>>))
            /\ NoSend
       ELSE /\ last' = EffRead("user", "login", FALSE, FALSE, FALSE, FALSE,
                               Args(<<>>, email, password, <<>>, <<>>))
            /\ Send("login", 0, "form", email)
    /\ UNCHANGED <<authVars, formVars, panelVars, modal, adoptVars, resetVars, recVars, mobVars, otherVars>>
    /\ UNCHANGED <<timers, failedEps, codeSentTo>>

\* the failure handler a retry would need: it sends the request again
LoginFailureRetry(r) ==
    /\ r \in inflight /\ r.ep = "login"
    /\ nextId <= MaxRequests
    /\ inflight' = (inflight \ {r}) \cup {Req(nextId, "login", 0, "form", r.email)}
    /\ nextId' = nextId + 1
    /\ sent' = Req(nextId, "login", 0, "form", r.email)
    /\ settled' = r
    /\ UNCHANGED overlapped
    /\ failedEps' = failedEps \cup {"login"}
    /\ codeSentTo' = codeSentTo
    /\ last' = Eff("response", "login", TRUE, TRUE, FALSE, FALSE)
    /\ UNCHANGED <<authVars, formVars, panelVars, modal, adoptVars, resetVars, recVars, mobVars, otherVars>>
    /\ UNCHANGED timers

\* a failure handler that also closes the login modal
LoginFailureClosesModal(r) ==
    /\ r \in inflight /\ r.ep = "login"
    /\ Settle(r, TRUE)
    /\ modal' = closeModal(modal, "login")
    /\ last' = Eff("response", "login", TRUE, TRUE, FALSE, FALSE)
    /\ UNCHANGED <<authVars, formVars, panelVars, adoptVars, resetVars, recVars, mobVars, otherVars>>
    /\ UNCHANGED timers

\* AuthSystem.login .catch: non-OK response, unparsable body or network error
LoginFailure(r) ==
    /\ r \in inflight /\ r.ep = "login"
    /\ Settle(r, TRUE)
    /\ last' = Eff("response", "login", TRUE, TRUE, FALSE, FALSE)
    /\ UNCHANGED <<authVars, formVars, panelVars, modal, adoptVars, resetVars, recVars, mobVars, otherVars>>
    /\ UNCHANGED timers

\* AuthSystem.login .then(user => ...): the server has opened the session
LoginSuccess(r, user) ==
    /\ r \in inflight /\ r.ep = "login"
    /\ Settle(r, FALSE)
    /\ session' = user
    /\ modal' = closeModal(modal, "login")
    /\ userInfo' = "auth"
    /\ loginBtn' = FALSE
    /\ uploadBtn' = (user.is_verified \/ user.is_admin)
    /\ adminBtn' = (adminBtn \/ user.is_admin)
    /\ loginDone' = TRUE
    /\ last' = Eff("response", "login", FALSE,
                   ~user.is_verified /\ ~user.is_admin, FALSE, FALSE)
    /\ UNCHANGED <<loadSession, currentUser, authCheck, userCheck>>
    /\ UNCHANGED <<formVars, panelVars, adoptVars, resetVars, recVars, mobVars, otherVars, timers>>

\* ------------------------------------------------------------------ logout
\* click on #logoutBtn: AuthSystem.logout or logout() of the main script,
\* whichever created the .user-info element
ClickLogout ==
    /\ userInfo # "none"
    /\ Send("logout", 0, userInfo, <<>>)
    /\ last' = Eff("user", "logout", FALSE, FALSE, FALSE, FALSE)
    /\ UNCHANGED <<authVars, formVars, panelVars, modal, adoptVars, resetVars, recVars, mobVars, otherVars>>
    /\ UNCHANGED <<timers, failedEps, codeSentTo>>

\* AuthSystem.logout .then: the UI goes back to logged out; currentUser of
\* the main script is not touched
AuthLogoutDone(r) ==
    /\ r \in inflight /\ r.ep = "logout" /\ r.src = "auth"
    /\ Settle(r, FALSE)
    /\ session' = NoUser
    /\ userInfo' = "none"
    /\ loginBtn' = TRUE
    /\ uploadBtn' = FALSE
    /\ adminBtn' = FALSE
    /\ loginDone' = FALSE
    /\ last' = Eff("response", "logout", FALSE, FALSE, FALSE, FALSE)
    /\ UNCHANGED <<loadSession, currentUser, authCheck, userCheck>>
    /\ UNCHANGED <<formVars, panelVars, modal, adoptVars, resetVars, recVars, mobVars, otherVars, timers>>

\* logout() of the main script .then: updateUIAfterLogout, then reload
MainLogoutDone(r) ==
    /\ r \in inflight /\ r.ep = "logout" /\ r.src = "main"
    /\ session' = NoUser
    /\ PageReloaded
    /\ UNCHANGED <<pwVars, searchVars, srvVars>>

\* fetch('/api/logout') rejects: AuthSystem.logout has no .catch, logout() of
\* the main script logs the error
LogoutFailure(r) ==
    /\ r \in inflight /\ r.ep = "logout"
    /\ Settle(r, TRUE)
    /\ last' = Eff("response", "logout", TRUE, FALSE, r.src = "main", FALSE)
    /\ UNCHANGED <<authVars, formVars, panelVars, modal, adoptVars, resetVars, recVars, mobVars, otherVars>>
    /\ UNCHANGED timers

\* ---------------------------------------------------------------- register
PwGood  == <<"a", "b", "c", "d", "1", "2", "3", "4">>
PwGood2 == <<"a", "b", "c", "d", "1", "2", "3", "5">>
RegisterNames     == {<<>>, <<"x">>}
RegisterEmails    == {<<>>, <<"a", "@", "b">>, EmailA}
RegisterPasswords == {<<>>, <<"a", "1">>, <<"a", "b", "c", "d", "e", "f", "g", "h">>,
                      PwGood, PwGood2}

\* the checks of handleRegister, in the order of the code: "" when all pass
RegisterRejection(name, email, password, confirmPassword) ==
    IF name = <<>> \/ email = <<>> \/ password = <<>> \/ confirmPassword = <<>>
    THEN "fill-in-all-fields"
    ELSE IF ~validateEmail(email) THEN "invalid-email-or-password"
    ELSE IF ~validatePassword(password) THEN "invalid-email-or-password"
    ELSE IF password # confirmPassword THEN "passwords-differ"
    ELSE ""

\* AuthSystem.handleRegister: submit of #registerForm (inside the register modal)
handleRegister(name, email, password, confirmPassword) ==
    /\ modal["register"]
    /\ IF RegisterRejection(name, email, password, confirmPassword) # ""
       THEN /\ last' = EffRead("user", "register", TRUE, TRUE, FALSE, FALSE,
                               Args(name, email, password, confirmPassword, <<>>))
            /\ NoSend
       ELSE /\ last' = EffRead("user", "register", FALSE, FALSE, FALSE, FALSE,
                               Args(name, email, password, confirmPassword, <<>>))
            /\ Send("register", 0, "form", email)
    /\ registerForm' = Args(name, email, password, confirmPassword, <<>>)
    /\ UNCHANGED <<authVars, panelVars, modal, adoptVars, resetVars, recVars, mobVars, otherVars>>
    /\ UNCHANGED <<timers, failedEps, codeSentTo>>

\* a .then that goes on to updateUIAfterLogin, as that of login does
RegisterSuccessLogsIn(r) ==
    /\ r \in inflight /\ r.ep = "register"
    /\ Settle(r, FALSE)
    /\ modal' = closeModal(modal, "register")
    /\ registerForm' = NoArgs
    /\ userInfo' = "auth"
    /\ loginBtn' = FALSE
    /\ last' = Eff("response", "register", FALSE, TRUE, FALSE, FALSE)
    /\ UNCHANGED <<session, loadSession, currentUser, loginDone, authCheck, userCheck,
                   uploadBtn, adminBtn>>
    /\ UNCHANGED <<panelVars, adoptVars, resetVars, recVars, mobVars, otherVars, timers>>

\* handleRegister .then(data => ...): an alert either way (email_sent or not),
\* the modal is closed and the form reset; nobody is logged in
RegisterSuccess(r) ==
    /\ r \in inflight /\ r.ep = "register"
    /\ Settle(r, FALSE)
    /\ modal' = closeModal(modal, "register")
    /\ registerForm' = NoArgs
    /\ last' = Eff("response", "register", FALSE, TRUE, FALSE, FALSE)
    /\ UNCHANGED <<authVars, panelVars, adoptVars, resetVars, recVars, mobVars, otherVars, timers>>

\* handleRegister .catch
RegisterFailure(r) ==
    /\ r \in inflight /\ r.ep = "register"
    /\ Settle(r, TRUE)
    /\ last' = Eff("response", "register", TRUE, TRUE, FALSE, FALSE)
    /\ UNCHANGED <<authVars, formVars, panelVars, modal, adoptVars, resetVars, recVars, mobVars, otherVars>>
    /\ UNCHANGED timers


\* ---------------------------------------------------------------- adoption
\* ids are numbers, or NoId for a cat the server sent without a usable id
\* (undefined, or text that is not a number): parseInt makes NaN of it, and
\* NaN === NaN is false
NoId == 0 - 1
NaN  == 0 - 2
parseInt(id) == IF id = NoId THEN NaN ELSE id
StrictEquals(a, b) == a # NaN /\ b # NaN /\ a = b

\* what a click handler was called with, as text for the record in last
ClickArgs(catId) == Args(<<>>, <<>>, <<>>, <<>>, <<ToString(catId)>>)

\* a lookup that takes the last cat with the id
FindCatLast(catId) ==
    LET hits == {i \in 1..Len(allCats) : StrictEquals(parseInt(allCats[i].id), parseInt(catId))}
    IN  IF hits = {} THEN NoCat
        ELSE allCats[CHOOSE i \in hits : \A k \in hits : i >= k]

\* the cat handleAdoptClick looks up: allCats.find(cat => parseInt(cat.id) === parseInt(catId))
FindCat(catId) ==
    LET hits == {i \in 1..Len(allCats) : StrictEquals(parseInt(allCats[i].id), parseInt(catId))}
    IN  IF hits = {} THEN NoCat
        ELSE allCats[CHOOSE i \in hits : \A k \in hits : i <= k]

\* the cards whose adopt button has a listener: createCatCard binds it only
\* when the cat is not adopted
ClickableCats ==
    IF catList.static THEN {}
    ELSE {catList.cards[i].id : i \in {k \in 1..Len(catList.cards) :
                                          ~catList.cards[k].is_adopted}}

\* openAdoptionModal(cat): the new values of the adoption state
openAdoptionModal(cat) ==
    /\ pendingAdoptionCat' = cat
    /\ adoptionStatus' = Status("hidden", 0)
    /\ modal' = openModal(modal, "adoption")

\* handleAdoptClick(catId): click on the adopt button of a rendered card
handleAdoptClick(catId) ==
    /\ catId \in ClickableCats
    /\ IF currentUser.id = 0
       THEN /\ modal' = openModal(modal, "login")
            /\ last' = EffRead("user", "handleAdoptClick", TRUE, TRUE, FALSE, FALSE,
                               ClickArgs(catId))
            /\ UNCHANGED adoptVars
       ELSE IF FindCat(catId) = NoCat \/ FindCat(catId).is_adopted
       THEN /\ last' = EffRead("user", "handleAdoptClick", TRUE, TRUE, FALSE, FALSE,
                               ClickArgs(catId))
            /\ UNCHANGED <<adoptVars, modal>>
       ELSE /\ openAdoptionModal(FindCat(catId))
            /\ last' = EffRead("user", "handleAdoptClick", FALSE, FALSE, FALSE, FALSE,
                               ClickArgs(catId))
    /\ UNCHANGED <<authVars, formVars, panelVars, resetVars, recVars, mobVars, otherVars>>
    /\ NoSend /\ UNCHANGED <<timers, failedEps, codeSentTo>>

\* a close that hides the modal and keeps the cat
closeAdoptionModalKeepsCat ==
    /\ modal' = closeModal(modal, "adoption")
    /\ pendingAdoptionCat' = pendingAdoptionCat

\* closeAdoptionModal: the new values of the adoption state
closeAdoptionModal ==
    /\ modal' = closeModal(modal, "adoption")
    /\ pendingAdoptionCat' = NoCat

\* #closeAdoptionModal or a click on the backdrop
ClickCloseAdoption ==
    /\ modal["adoption"]
    /\ closeAdoptionModal
    /\ last' = Eff("user", "closeAdoptionModal", FALSE, FALSE, FALSE, FALSE)
    /\ UNCHANGED <<authVars, formVars, panelVars, adoptionStatus, resetVars, recVars, mobVars, otherVars>>
    /\ NoSend /\ UNCHANGED <<timers, failedEps, codeSentTo>>

Contacts == {<<>>, <<" ">>, <<"x">>}

\* a submit that tests the contact field as typed, without trim()
submitAdoptionFormNoTrim(contactField) ==
    /\ modal["adoption"]
    /\ IF pendingAdoptionCat = NoCat
       THEN /\ adoptionStatus' = Status("cat-not-found", 0)
            /\ last' = EffRead("user", "adopt", TRUE, FALSE, FALSE, TRUE,
                               Args(<<>>, <<>>, <<>>, <<>>, contactField))
            /\ NoSend
       ELSE IF contactField = <<>>
       THEN /\ adoptionStatus' = Status("contact-required", 0)
            /\ last' = EffRead("user", "adopt", TRUE, FALSE, FALSE, TRUE,
                               Args(<<>>, <<>>, <<>>, <<>>, contactField))
            /\ NoSend
       ELSE /\ adoptionStatus' = Status("submitting", nextId)
            /\ last' = EffRead("user", "adopt", FALSE, FALSE, FALSE, FALSE,
                               Args(<<>>, <<>>, <<>>, <<>>, contactField))
            /\ Send("adopt", pendingAdoptionCat.id, "form", <<>>)
    /\ UNCHANGED <<authVars, formVars, panelVars, modal, pendingAdoptionCat, resetVars, recVars, mobVars, otherVars>>
    /\ UNCHANGED <<timers, failedEps, codeSentTo>>

\* submitAdoptionForm: submit of #adoptionForm (inside the adoption modal)
submitAdoptionForm(contactField) ==
    /\ modal["adoption"]
    /\ IF pendingAdoptionCat = NoCat
       THEN /\ adoptionStatus' = Status("cat-not-found", 0)
            /\ last' = EffRead("user", "adopt", TRUE, FALSE, FALSE, TRUE,
                               Args(<<>>, <<>>, <<>>, <<>>, contactField))
            /\ NoSend
       ELSE IF Trim(contactField) = <<>>
       THEN /\ adoptionStatus' = Status("contact-required", 0)
            /\ last' = EffRead("user", "adopt", TRUE, FALSE, FALSE, TRUE,
                               Args(<<>>, <<>>, <<>>, <<>>, contactField))
            /\ NoSend
       ELSE /\ adoptionStatus' = Status("submitting", nextId)
            /\ last' = EffRead("user", "adopt", FALSE, FALSE, FALSE, FALSE,
                               Args(<<>>, <<>>, <<>>, <<>>, contactField))
            /\ Send("adopt", pendingAdoptionCat.id, "form", <<>>)
    /\ UNCHANGED <<authVars, formVars, panelVars, modal, pendingAdoptionCat, resetVars, recVars, mobVars, otherVars>>
    /\ UNCHANGED <<timers, failedEps, codeSentTo>>

\* submitAdoptionForm .then, ok: success text, the modal closes 1.5 s later
AdoptSuccess(r) ==
    /\ r \in inflight /\ r.ep = "adopt"
    /\ Settle(r, FALSE)
    /\ adoptionStatus' = Status("submitted", r.id)
    /\ SetTimer("closeAdoption")
    /\ last' = Eff("response", "adopt", FALSE, FALSE, FALSE, FALSE)
    /\ UNCHANGED <<authVars, formVars, panelVars, modal, pendingAdoptionCat, resetVars, recVars, mobVars, otherVars>>

\* submitAdoptionForm .catch: non-OK response (thrown by .then), unparsable
\* body or network error
AdoptFailure(r) ==
    /\ r \in inflight /\ r.ep = "adopt"
    /\ Settle(r, TRUE)
    /\ adoptionStatus' = Status("submit-failed", r.id)
    /\ last' = Eff("response", "adopt", TRUE, FALSE, TRUE, TRUE)
    /\ UNCHANGED <<authVars, formVars, panelVars, modal, pendingAdoptionCat, resetVars, recVars, mobVars, otherVars>>
    /\ UNCHANGED timers

\* setTimeout(() => closeAdoptionModal(), 1500)
AdoptionCloseTimer ==
    /\ TimerFires("closeAdoption")
    /\ closeAdoptionModal
    /\ last' = Eff("timer", "closeAdoptionModal", FALSE, FALSE, FALSE, FALSE)
    /\ UNCHANGED <<authVars, formVars, panelVars, adoptionStatus, resetVars, recVars, mobVars, otherVars>>
    /\ NoSend /\ UNCHANGED <<failedEps, codeSentTo>>

\* -------------------------------------------------- forgot / reset password
\* AuthSystem.handleForgotPassword: submit of #forgotPasswordForm
handleForgotPassword(emailField) ==
    /\ modal["forgotPassword"]
    /\ IF Trim(emailField) = <<>>
       THEN /\ forgotStatus' = "enter-email"
            /\ last' = EffRead("user", "forgotPassword", TRUE, FALSE, FALSE, TRUE,
                               Args(<<>>, emailField, <<>>, <<>>, <<>>))
            /\ NoSend
       ELSE IF ~validateEmail(Trim(emailField))
       THEN /\ forgotStatus' = "enter-valid-email"
            /\ last' = EffRead("user", "forgotPassword", TRUE, FALSE, FALSE, TRUE,
                               Args(<<>>, emailField, <<>>, <<>>, <<>>))
            /\ NoSend
       ELSE /\ forgotStatus' = "sending-code"
            /\ last' = EffRead("user", "forgotPassword", FALSE, FALSE, FALSE, FALSE,
                               Args(<<>>, emailField, <<>>, <<>>, <<>>))
            /\ Send("forgot-password", 0, "form", Trim(emailField))
    /\ UNCHANGED <<authVars, formVars, panelVars, modal, adoptVars, resetStatus, resetPasswordEmail>>
    /\ UNCHANGED <<recVars, mobVars, otherVars, timers, failedEps, codeSentTo>>

\* .then(data => ...) with data.message && data.email_sent
ForgotSent(r) ==
    /\ r \in inflight /\ r.ep = "forgot-password"
    /\ Settle(r, FALSE)
    /\ forgotStatus' = "code-sent"
    /\ resetPasswordEmail' = r.email
    /\ SetTimer("openReset")
    /\ last' = Eff("response", "forgotPassword", FALSE, FALSE, FALSE, FALSE)
    /\ UNCHANGED <<authVars, formVars, panelVars, modal, adoptVars, resetStatus, recVars, mobVars, otherVars>>

\* the else branch moving on to the reset-password modal all the same
ForgotNotSentOpensReset(r) ==
    /\ r \in inflight /\ r.ep = "forgot-password"
    /\ Settle(r, TRUE)
    /\ forgotStatus' = "send-failed"
    /\ SetTimer("openReset")
    /\ last' = Eff("response", "forgotPassword", TRUE, FALSE, FALSE, TRUE)
    /\ UNCHANGED <<authVars, formVars, panelVars, modal, adoptVars, resetStatus, resetPasswordEmail>>
    /\ UNCHANGED <<recVars, mobVars, otherVars>>

\* .then(data => ...) without them: the server's error text or the default one
ForgotNotSent(r) ==
    /\ r \in inflight /\ r.ep = "forgot-password"
    /\ Settle(r, TRUE)
    /\ forgotStatus' = "send-failed"
    /\ last' = Eff("response", "forgotPassword", TRUE, FALSE, FALSE, TRUE)
    /\ UNCHANGED <<authVars, formVars, panelVars, modal, adoptVars, resetStatus, resetPasswordEmail>>
    /\ UNCHANGED <<recVars, mobVars, otherVars, timers>>

\* .catch: network error or unparsable body
ForgotFailure(r) ==
    /\ r \in inflight /\ r.ep = "forgot-password"
    /\ Settle(r, TRUE)
    /\ forgotStatus' = "send-failed"
    /\ last' = Eff("response", "forgotPassword", TRUE, FALSE, TRUE, TRUE)
    /\ UNCHANGED <<authVars, formVars, panelVars, modal, adoptVars, resetStatus, resetPasswordEmail>>
    /\ UNCHANGED <<recVars, mobVars, otherVars, timers>>

\* setTimeout(() => { closeModal('forgotPassword'); openModal('resetPassword') }, 1500)
OpenResetTimer ==
    /\ TimerFires("openReset")
    /\ modal' = openModal(closeModal(modal, "forgotPassword"), "resetPassword")
    /\ last' = Eff("timer", "openResetPassword", FALSE, FALSE, FALSE, FALSE)
    /\ UNCHANGED <<authVars, formVars, panelVars, adoptVars, resetVars, recVars, mobVars, otherVars>>
    /\ NoSend /\ UNCHANGED <<failedEps, codeSentTo>>

\* #showForgotFromReset: back to the forgot-password modal
ClickForgotFromReset ==
    /\ modal["resetPassword"]
    /\ modal' = openModal(closeModal(modal, "resetPassword"), "forgotPassword")
    /\ last' = Eff("user", "switchModal", FALSE, FALSE, FALSE, FALSE)
    /\ UNCHANGED <<authVars, formVars, panelVars, adoptVars, resetVars, recVars, mobVars, otherVars>>
    /\ NoSend /\ UNCHANGED <<timers, failedEps, codeSentTo>>


ResetCodes == {<<>>, <<"1", "2">>, <<"1", "2", "3", "4", "5", "6">>}

\* the checks of handleResetPassword, in the order of the code: "" when all pass
ResetRejection(code, newPassword, confirmPassword) ==
    IF Trim(code) = <<>> \/ Len(Trim(code)) # 6 THEN "enter-6-digit-code"
    ELSE IF newPassword = <<>> \/ confirmPassword = <<>> THEN "fill-in-all-fields"
    ELSE IF newPassword # confirmPassword THEN "passwords-differ"
    ELSE IF ~validatePassword(newPassword) THEN "password-too-weak"
    ELSE ""

\* AuthSystem.handleResetPassword: submit of #resetPasswordForm
handleResetPassword(code, newPassword, confirmPassword) ==
    /\ modal["resetPassword"]
    /\ IF ResetRejection(code, newPassword, confirmPassword) # ""
       THEN /\ resetStatus' = ResetRejection(code, newPassword, confirmPassword)
            /\ last' = EffRead("user", "resetPassword", TRUE, FALSE, FALSE, TRUE,
                               Args(<<>>, resetPasswordEmail, newPassword, confirmPassword, code))
            /\ NoSend
       ELSE /\ resetStatus' = "resetting"
            /\ last' = EffRead("user", "resetPassword", FALSE, FALSE, FALSE, FALSE,
                               Args(<<>>, resetPasswordEmail, newPassword, confirmPassword, code))
            /\ Send("reset-password", 0, "form", resetPasswordEmail)
    /\ UNCHANGED <<authVars, formVars, panelVars, modal, adoptVars, forgotStatus, resetPasswordEmail>>
    /\ UNCHANGED <<recVars, mobVars, otherVars, timers, failedEps, codeSentTo>>

\* .then(data => ...) with data.message
ResetDone(r) ==
    /\ r \in inflight /\ r.ep = "reset-password"
    /\ Settle(r, FALSE)
    /\ resetStatus' = "reset-done"
    /\ SetTimer("resetDone")
    /\ last' = Eff("response", "resetPassword", FALSE, FALSE, FALSE, FALSE)
    /\ UNCHANGED <<authVars, formVars, panelVars, modal, adoptVars, forgotStatus, resetPasswordEmail>>
    /\ UNCHANGED <<recVars, mobVars, otherVars>>

\* .then(data => ...) without it: the server's error text or the default one
ResetRejected(r) ==
    /\ r \in inflight /\ r.ep = "reset-password"
    /\ Settle(r, TRUE)
    /\ resetStatus' = "reset-failed"
    /\ last' = Eff("response", "resetPassword", TRUE, FALSE, FALSE, TRUE)
    /\ UNCHANGED <<authVars, formVars, panelVars, modal, adoptVars, forgotStatus, resetPasswordEmail>>
    /\ UNCHANGED <<recVars, mobVars, otherVars, timers>>

\* .catch: network error or unparsable body
ResetFailure(r) ==
    /\ r \in inflight /\ r.ep = "reset-password"
    /\ Settle(r, TRUE)
    /\ resetStatus' = "reset-failed"
    /\ last' = Eff("response", "resetPassword", TRUE, FALSE, TRUE, TRUE)
    /\ UNCHANGED <<authVars, formVars, panelVars, modal, adoptVars, forgotStatus, resetPasswordEmail>>
    /\ UNCHANGED <<recVars, mobVars, otherVars, timers>>

\* #resetPasswordForm.reset() puts back the fields the user typed into. The
\* markup of the form is not among the sources; #resetPasswordEmail, the field
\* in which the forgot-password handler stores the address, is taken as the
\* specification has it: a stored value that a reset of the form leaves alone.
resetPasswordFormReset(storedEmail) == storedEmail

\* setTimeout(() => { form.reset(); closeModal('resetPassword');
\*                    openModal('login'); alert(...) }, 1500)
ResetDoneTimer ==
    /\ TimerFires("resetDone")
    /\ resetPasswordEmail' = resetPasswordFormReset(resetPasswordEmail)
    /\ modal' = openModal(closeModal(modal, "resetPassword"), "login")
    /\ last' = Eff("timer", "resetPasswordDone", FALSE, TRUE, FALSE, FALSE)
    /\ NoSend
    /\ UNCHANGED <<authVars, formVars, panelVars, adoptVars, forgotStatus, resetStatus>>
    /\ UNCHANGED <<recVars, mobVars, otherVars, failedEps, codeSentTo>>

\* ============================================================= recognition
\* 'change' of #recognitionFileInput: the user picks a file or clears the choice
SelectFile(chosen) ==
    /\ fileSelected' = chosen
    /\ last' = Eff("user", "selectFile", FALSE, FALSE, FALSE, FALSE)
    /\ NoSend
    /\ UNCHANGED <<authVars, formVars, panelVars, modal, adoptVars, resetVars, recognitionStatus>>
    /\ UNCHANGED <<recognitionResults, mobVars, otherVars, timers, failedEps, codeSentTo>>

\* handleRecognitionUpload, with recognizeCatImage(file, 'upload') up to the fetch
handleRecognitionUpload ==
    /\ IF ~fileSelected
       THEN /\ recognitionStatus' = Status("choose-a-file", 0)
            /\ last' = Eff("user", "recognize", TRUE, FALSE, FALSE, TRUE)
            /\ NoSend
       ELSE /\ recognitionStatus' = Status("recognizing", nextId)
            /\ last' = Eff("user", "recognize", FALSE, FALSE, FALSE, FALSE)
            /\ Send("recognize", 0, "upload", <<>>)
    /\ UNCHANGED <<authVars, formVars, panelVars, modal, adoptVars, resetVars>>
    /\ UNCHANGED <<recognitionResults, fileSelected, mobVars, otherVars, timers, failedEps, codeSentTo>>

\* captureRecognitionPhoto with its toBlob callback, and
\* recognizeCatImage(blob, 'camera') up to the fetch
captureRecognitionPhoto(blobOk) ==
    /\ IF recognitionStream = NoStream
       THEN /\ recognitionStatus' = Status("start-the-camera-first", 0)
            /\ last' = Eff("user", "recognize", TRUE, FALSE, FALSE, TRUE)
            /\ NoSend
       ELSE IF ~blobOk
       THEN /\ recognitionStatus' = Status("capture-failed", 0)
            /\ last' = Eff("user", "recognize", TRUE, FALSE, FALSE, TRUE)
            /\ NoSend
       ELSE /\ recognitionStatus' = Status("recognizing", nextId)
            /\ last' = Eff("user", "recognize", FALSE, FALSE, FALSE, FALSE)
            /\ Send("recognize", 0, "camera", <<>>)
    /\ UNCHANGED <<authVars, formVars, panelVars, modal, adoptVars, resetVars>>
    /\ UNCHANGED <<recognitionResults, fileSelected, mobVars, otherVars, timers, failedEps, codeSentTo>>

MobileSources == {"mobile-manual", "mobile-auto"}

\* an updateMobileStatus that has lost its element
updateMobileStatusNoElement(text, req) == mobileStatus

\* updateMobileStatus(message): nothing when the panel is not in the page
updateMobileStatus(text, req) ==
    IF mobilePanel THEN Status(text, req) ELSE mobileStatus

\* a statusHandler that ignores the response of a request that is not the
\* newest one
statusHandlerOfNewest(r, text) ==
    IF r.id # nextId - 1
    THEN UNCHANGED <<recognitionStatus, mobileStatus>>
    ELSE IF r.src \in MobileSources
    THEN /\ mobileStatus' = IF mobilePanel THEN Status(text, r.id) ELSE mobileStatus
         /\ UNCHANGED recognitionStatus
    ELSE /\ recognitionStatus' = Status(text, r.id)
         /\ UNCHANGED mobileStatus

\* statusHandler(...) of recognizeCatImage: setRecognitionStatus for the
\* recognition section, updateMobileStatus for the mobile panel
statusHandler(r, text) ==
    IF r.src \in MobileSources
    THEN /\ mobileStatus' = updateMobileStatus(text, r.id)
         /\ UNCHANGED recognitionStatus
    ELSE /\ recognitionStatus' = Status(text, r.id)
         /\ UNCHANGED mobileStatus

\* whether statusHandler has an element to write to
StatusShown(r) == r.src \in MobileSources => mobilePanel

\* recognizeCatImage, second .then with ok: 'done', onResults(data), and the
\* file input is cleared after an upload
RecognizeOk(r) ==
    /\ r \in inflight /\ r.ep = "recognize"
    /\ Settle(r, FALSE)
    /\ statusHandler(r, "done")
    /\ IF r.src \in MobileSources
       THEN /\ mobileReport' = IF mobilePanel THEN Status("report", r.id) ELSE mobileReport
            /\ UNCHANGED recognitionResults
       ELSE /\ recognitionResults' = Status("results", r.id)
            /\ UNCHANGED mobileReport
    /\ fileSelected' = IF r.src = "upload" THEN FALSE ELSE fileSelected
    /\ last' = Eff("response", "recognize", FALSE, FALSE, FALSE, FALSE)
    /\ UNCHANGED <<authVars, formVars, panelVars, modal, adoptVars, resetVars, otherVars, timers>>
    /\ UNCHANGED <<mobilePanel, mobileCommandStream, mobileTracks, mobileGum,
                   mobileAutoActive, mobileAutoTimer, mobileIntervals>>

\* recognizeCatImage, first .then with status 401: the status text and the
\* login modal; the .catch skips the error it threw
RecognizeUnauthorized(r) ==
    /\ r \in inflight /\ r.ep = "recognize"
    /\ Settle(r, TRUE)
    /\ statusHandler(r, "login-required")
    /\ modal' = openModal(modal, "login")
    /\ last' = Eff("response", "recognize", TRUE, FALSE, FALSE, StatusShown(r))
    /\ UNCHANGED <<authVars, formVars, panelVars, adoptVars, resetVars, otherVars, timers>>
    /\ UNCHANGED <<recognitionResults, fileSelected, mobileReport>>
    /\ UNCHANGED <<mobilePanel, mobileCommandStream, mobileTracks, mobileGum,
                   mobileAutoActive, mobileAutoTimer, mobileIntervals>>

\* recognizeCatImage, .catch: non-OK response (thrown by the second .then),
\* unparsable body or network error
RecognizeFailure(r) ==
    /\ r \in inflight /\ r.ep = "recognize"
    /\ Settle(r, TRUE)
    /\ statusHandler(r, "recognition-failed")
    /\ last' = Eff("response", "recognize", TRUE, FALSE, TRUE, StatusShown(r))
    /\ UNCHANGED <<authVars, formVars, panelVars, modal, adoptVars, resetVars, otherVars, timers>>
    /\ UNCHANGED <<recognitionResults, fileSelected, mobileReport>>
    /\ UNCHANGED <<mobilePanel, mobileCommandStream, mobileTracks, mobileGum,
                   mobileAutoActive, mobileAutoTimer, mobileIntervals>>

\* ---- recognizeCatImage's promise chain on an answer of /api/cats/recognize,
\* ---- by status code and body
AnswerStatuses == {200, 401, 403, 500}

\* bodies: JSON with the results, JSON with an error text, JSON whose error
\* text is the very marker the chain throws on 401, JSON without an error
\* field, and a body that is not JSON
AnswerBodies == {"results", "error", "error-not-logged-in", "no-error", "unparsable"}

AnswerArgs(status, body) == Args(<<>>, <<>>, <<>>, <<>>, <<ToString(status), body>>)

\* response.ok
ResponseOk(status) == status \in 200..299

\* the message of new Error('未登录')
NotLoggedIn == "not-logged-in"

\* data.error || '识别失败，请稍后重试。'
ErrorOrDefault(body) ==
    CASE body = "error"               -> "server-error-text"
      [] body = "error-not-logged-in" -> NotLoggedIn
      [] OTHER                        -> "recognition-failed"

\* the message of the error that reaches .catch, "" when the chain completes:
\* thrown by the first .then on 401, by response.json() on a body that is not
\* JSON, by the second .then when the response is not ok
ThrownMessage(status, body) ==
    IF status = 401 THEN NotLoggedIn
    ELSE IF body = "unparsable" THEN "json-syntax-error"
    ELSE IF ~ResponseOk(status) THEN ErrorOrDefault(body)
    ELSE ""

\* recognizeCatImage: .then(response => ...).then(({ok, data}) => ...).catch(...)
recognizeCatImageAnswer(r, status, body) ==
    /\ r \in inflight /\ r.ep = "recognize"
    /\ LET message == ThrownMessage(status, body)
           caught  == message \notin {"", NotLoggedIn}
       IN  /\ Settle(r, message # "")
           /\ IF status = 401
              THEN /\ statusHandler(r, "login-required")
                   /\ modal' = openModal(modal, "login")
              ELSE /\ modal' = modal
                   /\ IF message = "" THEN statusHandler(r, "done")
                      ELSE IF caught THEN statusHandler(r, message)
                      ELSE UNCHANGED <<recognitionStatus, mobileStatus>>
           /\ IF message # ""
              THEN UNCHANGED <<recognitionResults, mobileReport, fileSelected>>
              ELSE /\ IF r.src \in MobileSources
                      THEN /\ mobileReport' = IF mobilePanel THEN Status("report", r.id)
                                                             ELSE mobileReport
                           /\ UNCHANGED recognitionResults
                      ELSE /\ recognitionResults' = Status("results", r.id)
                           /\ UNCHANGED mobileReport
                   /\ fileSelected' = IF r.src = "upload" THEN FALSE ELSE fileSelected
           /\ last' = EffRead("response", "recognize", message # "", FALSE, caught,
                              (status = 401 \/ caught) /\ StatusShown(r),
                              AnswerArgs(status, body))
    /\ UNCHANGED <<authVars, formVars, panelVars, adoptVars, resetVars, otherVars, timers>>
    /\ UNCHANGED <<mobilePanel, mobileCommandStream, mobileTracks, mobileGum,
                   mobileAutoActive, mobileAutoTimer, mobileIntervals>>


\* ============================================================ mobile panel
RemoveAt(s, i) == SubSeq(s, 1, i - 1) \o SubSeq(s, i + 1, Len(s))

\* captureMobileFrame(manual) with its toBlob callback, and recognizeCatImage
\* up to the fetch; stream is mobileCommandStream at the call, ready says
\* whether the video has its dimensions, kind what started the callback
captureMobileFrame(stream, manual, ready, blobOk, kind) ==
    IF stream = NoStream \/ ~mobilePanel
    THEN /\ mobileStatus' = updateMobileStatus("camera-not-ready", 0)
         /\ last' = Eff(kind, "recognize", TRUE, FALSE, FALSE, mobilePanel)
         /\ NoSend
    ELSE IF ~ready
    THEN /\ mobileStatus' = updateMobileStatus("focusing", 0)
         /\ last' = Eff(kind, "recognize", FALSE, FALSE, FALSE, FALSE)
         /\ NoSend
    ELSE IF ~blobOk
    THEN /\ mobileStatus' = updateMobileStatus("sample-failed", 0)
         /\ last' = Eff(kind, "recognize", TRUE, FALSE, FALSE, mobilePanel)
         /\ NoSend
    ELSE /\ mobileStatus' = updateMobileStatus("recognizing", nextId)
         /\ last' = Eff(kind, "recognize", FALSE, FALSE, FALSE, FALSE)
         /\ Send("recognize", 0, IF manual THEN "mobile-manual" ELSE "mobile-auto", <<>>)

\* clearInterval(mobileAutoTimer): the intervals that are left
clearInterval == IF mobileAutoTimer THEN mobileIntervals - 1 ELSE mobileIntervals

\* a startMobileAutoLoop that sets its interval without clearing the old one
startMobileAutoLoopNoClear == mobileIntervals + 1

\* startMobileAutoLoop: clearInterval(mobileAutoTimer), then setInterval
startMobileAutoLoop == clearInterval + 1

\* click on #mobileAutoBtn: toggleMobileAuto; with a stream already held the
\* promise of startMobileCamera is resolved and its .then runs at once
toggleMobileAuto(ready, blobOk) ==
    /\ mobilePanel
    /\ IF ~mobileAutoActive
       THEN IF mobileCommandStream # NoStream
            THEN /\ mobileAutoActive' = TRUE
                 /\ mobileAutoTimer' = TRUE
                 /\ mobileIntervals' = startMobileAutoLoop
                 /\ captureMobileFrame(mobileCommandStream, FALSE, ready, blobOk, "user")
                 /\ UNCHANGED mobileGum
            ELSE /\ Len(mobileGum) < MaxPanelGum
                 /\ mobileGum' = Append(mobileGum, "auto")
                 /\ mobileStatus' = updateMobileStatus("waking-camera", 0)
                 /\ last' = Eff("user", "toggleMobileAuto", FALSE, FALSE, FALSE, FALSE)
                 /\ NoSend
                 /\ UNCHANGED <<mobileAutoActive, mobileAutoTimer, mobileIntervals>>
       ELSE /\ mobileAutoActive' = FALSE
            /\ mobileAutoTimer' = FALSE
            /\ mobileIntervals' = clearInterval
            /\ mobileStatus' = updateMobileStatus("paused", 0)
            /\ last' = Eff("user", "toggleMobileAuto", FALSE, FALSE, FALSE, FALSE)
            /\ NoSend
            /\ UNCHANGED mobileGum
    /\ UNCHANGED <<mobilePanel, mobileCommandStream, mobileTracks, mobileReport>>
    /\ UNCHANGED <<authVars, formVars, panelVars, modal, adoptVars, resetVars, recVars, otherVars, timers, failedEps, codeSentTo>>

\* click on #mobileSnapBtn: captureMobileSnapshot
captureMobileSnapshot(ready, blobOk) ==
    /\ mobilePanel
    /\ IF mobileCommandStream # NoStream
       THEN /\ mobileAutoActive' = FALSE
            /\ mobileAutoTimer' = FALSE
            /\ mobileIntervals' = clearInterval
            /\ captureMobileFrame(mobileCommandStream, TRUE, ready, blobOk, "user")
            /\ UNCHANGED mobileGum
       ELSE /\ Len(mobileGum) < MaxPanelGum
            /\ mobileGum' = Append(mobileGum, "snap")
            /\ mobileStatus' = updateMobileStatus("waking-camera", 0)
            /\ last' = Eff("user", "captureMobileSnapshot", FALSE, FALSE, FALSE, FALSE)
            /\ NoSend
            /\ UNCHANGED <<mobileAutoActive, mobileAutoTimer, mobileIntervals>>
    /\ UNCHANGED <<mobilePanel, mobileCommandStream, mobileTracks, mobileReport>>
    /\ UNCHANGED <<authVars, formVars, panelVars, modal, adoptVars, resetVars, recVars, otherVars, timers, failedEps, codeSentTo>>

\* startMobileCamera, getUserMedia(...).then(stream => ...), followed by the
\* .then of the caller: toggleMobileAuto starts the loop (startMobileAutoLoop
\* sets the interval and captures at once), captureMobileSnapshot captures
MobileCameraGranted(i, ready, blobOk) ==
    /\ i \in 1..Len(mobileGum)
    /\ Len(mobileTracks) < MaxMobileStreams
    /\ mobileGum' = RemoveAt(mobileGum, i)
    /\ mobileTracks' = Append(mobileTracks, "running")
    /\ mobileCommandStream' = Len(mobileTracks) + 1
    /\ mobileAutoActive' = (mobileGum[i] = "auto")
    /\ mobileAutoTimer' = (mobileGum[i] = "auto")
    /\ mobileIntervals' = IF mobileGum[i] = "auto" THEN startMobileAutoLoop ELSE clearInterval
    /\ captureMobileFrame(Len(mobileTracks) + 1, mobileGum[i] = "snap", ready, blobOk, "grant")
    /\ UNCHANGED <<mobilePanel, mobileReport>>
    /\ UNCHANGED <<authVars, formVars, panelVars, modal, adoptVars, resetVars, recVars, otherVars, timers, failedEps, codeSentTo>>

\* startMobileCamera, getUserMedia(...).catch(error => ...); the callers
\* swallow the rejection
MobileCameraDenied(i) ==
    /\ i \in 1..Len(mobileGum)
    /\ mobileGum' = RemoveAt(mobileGum, i)
    /\ mobileStatus' = updateMobileStatus("camera-failed", 0)
    /\ last' = Eff("grant", "startMobileCamera", TRUE, FALSE, TRUE, mobilePanel)
    /\ NoSend
    /\ UNCHANGED <<mobilePanel, mobileCommandStream, mobileTracks,
                   mobileAutoActive, mobileAutoTimer, mobileIntervals, mobileReport>>
    /\ UNCHANGED <<authVars, formVars, panelVars, modal, adoptVars, resetVars, recVars, otherVars, timers, failedEps, codeSentTo>>

\* the callback startMobileAutoLoop gave to setInterval(..., 4500)
MobileAutoTick(ready, blobOk) ==
    /\ mobileIntervals > 0
    /\ IF mobileAutoActive
       THEN captureMobileFrame(mobileCommandStream, FALSE, ready, blobOk, "interval")
       ELSE /\ last' = Eff("interval", "recognize", FALSE, FALSE, FALSE, FALSE)
            /\ NoSend
            /\ UNCHANGED mobileStatus
    /\ UNCHANGED <<mobilePanel, mobileCommandStream, mobileTracks, mobileGum,
                   mobileAutoActive, mobileAutoTimer, mobileIntervals, mobileReport>>
    /\ UNCHANGED <<authVars, formVars, panelVars, modal, adoptVars, resetVars, recVars, otherVars, timers, failedEps, codeSentTo>>

\* stopMobileCamera: the new values of the stream, its tracks and the loop
stopMobileCamera ==
    /\ mobileTracks' = IF mobileCommandStream # NoStream
                       THEN [mobileTracks EXCEPT ![mobileCommandStream] = "stopped"]
                       ELSE mobileTracks
    /\ mobileCommandStream' = NoStream
    /\ mobileAutoTimer' = FALSE
    /\ mobileIntervals' = clearInterval
    /\ mobileAutoActive' = FALSE


\* ------------------------------------------ retreat and return of the panel
\* panel.style.transform = 'translateY(120%)'
OffScreen == 0 - 2

\* updateMobileCruiseFABVisibility: the FAB exists on a mobile browser only
FabVisibility(desktop, stored, retreated) ==
    mobileUI /\ (desktop \/ (storageAvailable /\ stored) \/ retreated)

\* persistMobilePanelRetreatFlag: nothing when the storage cannot be used
persistMobilePanelRetreatFlag == IF storageAvailable THEN TRUE ELSE storedFlag

\* storage.removeItem(MOBILE_PANEL_STORAGE_KEY) of reactivateMobileCruisePanel
removeMobilePanelRetreatFlag == IF storageAvailable THEN FALSE ELSE storedFlag

\* a retreat that forgets to write the flag to the session storage
retreatMobilePanelToDesktopNoPersist ==
    IF mobilePanelRetreated
    THEN UNCHANGED <<mobilePanelRetreated, storedFlag, desktopMode, fabShown,
                     panelTransform, timers>>
    ELSE /\ mobilePanelRetreated' = TRUE
         /\ storedFlag' = storedFlag
         /\ desktopMode' = TRUE
         /\ fabShown' = FabVisibility(TRUE, storedFlag, TRUE)
         /\ panelTransform' = OffScreen
         /\ timers' = [timers EXCEPT !["panelTransitionEnd"] = 1,
                                     !["teardown"] = @ + 1,
                                     !["desktopReload"] = @ + 1]

\* retreatMobilePanelToDesktop with activateDesktopView, called by a listener
\* of the panel (mobileCommandPanel is set): the flag, the desktop class, the
\* FAB, the panel sliding out, and three callbacks to come: transitionend of
\* the panel (once), teardown after 300 ms, the reload after 400 ms
retreatMobilePanelToDesktop ==
    IF mobilePanelRetreated
    THEN UNCHANGED <<mobilePanelRetreated, storedFlag, desktopMode, fabShown,
                     panelTransform, timers>>
    ELSE /\ mobilePanelRetreated' = TRUE
         /\ storedFlag' = persistMobilePanelRetreatFlag
         /\ desktopMode' = TRUE
         /\ fabShown' = FabVisibility(TRUE, persistMobilePanelRetreatFlag, TRUE)
         /\ panelTransform' = OffScreen
         /\ timers' = [timers EXCEPT !["panelTransitionEnd"] = 1,
                                     !["teardown"] = @ + 1,
                                     !["desktopReload"] = @ + 1]

\* what no callback of the panel writes
OutsidePanel == <<authVars, formVars, modal, adoptVars, resetVars, recVars, otherVars,
                  failedEps, codeSentTo>>

\* click on #mobileRetreatBtn (the panel faded out by activateDesktopView
\* takes no pointer events, its button can still be activated from the keyboard)
ClickRetreat ==
    /\ mobilePanel
    /\ timers["teardown"] < MaxPendingTeardowns
    /\ timers["desktopReload"] < MaxPendingTeardowns
    /\ retreatMobilePanelToDesktop
    /\ last' = Eff("user", "retreatMobilePanelToDesktop", FALSE, FALSE, FALSE, FALSE)
    /\ NoSend
    /\ UNCHANGED <<mobVars, mobileUI, storageAvailable, panelListeners>>
    /\ UNCHANGED <<touches, startY, currentOffset, dragging, panelScrollTop>>
    /\ UNCHANGED OutsidePanel

\* teardownMobileCommandCenter: the gesture listeners go (resetTransform), the
\* camera and the loop are stopped, the panel leaves the page
teardownMobileCommandCenter ==
    /\ stopMobileCamera
    /\ mobilePanel' = FALSE
    /\ touches' = <<>>
    /\ startY' = 0
    /\ currentOffset' = 0
    /\ dragging' = FALSE
    /\ panelTransform' = NoTransform
    /\ panelScrollTop' = 0
    /\ UNCHANGED <<mobileGum, mobileStatus, mobileReport>>
    /\ UNCHANGED <<mobileUI, mobilePanelRetreated, storageAvailable, storedFlag,
                   desktopMode, fabShown, panelListeners>>

\* setTimeout(teardownMobileCommandCenter, 300)
TeardownTimer ==
    /\ timers["teardown"] > 0
    /\ timers' = [timers EXCEPT !["teardown"] = @ - 1, !["panelTransitionEnd"] = 0,
                                 !["snapBack"] = 0]
    /\ teardownMobileCommandCenter
    /\ last' = Eff("timer", "teardownMobileCommandCenter", FALSE, FALSE, FALSE, FALSE)
    /\ NoSend
    /\ UNCHANGED OutsidePanel

\* 'transitionend' of the panel, { once: true } listeners: the teardown of a
\* panel that slid out, the clean-up of a panel that snapped back; a panel
\* taken out of the page ends no transition
PanelTransitionEnd ==
    /\ timers["panelTransitionEnd"] > 0 \/ timers["snapBack"] > 0
    /\ timers' = [timers EXCEPT !["panelTransitionEnd"] = 0, !["snapBack"] = 0]
    /\ IF timers["panelTransitionEnd"] > 0
       THEN teardownMobileCommandCenter
       ELSE /\ panelTransform' = NoTransform
            /\ UNCHANGED <<mobVars, mobileUI, mobilePanelRetreated, storageAvailable,
                           storedFlag, desktopMode, fabShown, panelListeners>>
            /\ UNCHANGED <<touches, startY, currentOffset, dragging, panelScrollTop>>
    /\ last' = Eff("transitionend", "teardownMobileCommandCenter", FALSE, FALSE, FALSE, FALSE)
    /\ NoSend
    /\ UNCHANGED OutsidePanel

\* activateDesktopView: setTimeout(() => { if (the class is still there)
\* window.location.reload() }, 400)
DesktopReloadTimer ==
    /\ timers["desktopReload"] > 0
    /\ IF desktopMode
       THEN /\ UNCHANGED <<session, pwVars, searchVars, srvVars>>
            /\ PageReloaded
       ELSE /\ timers' = [timers EXCEPT !["desktopReload"] = @ - 1]
            /\ last' = Eff("timer", "activateDesktopView", FALSE, FALSE, FALSE, FALSE)
            /\ NoSend
            /\ UNCHANGED <<mobVars, panelVars>>
            /\ UNCHANGED OutsidePanel

\* click on #mobileCruiseFAB: reactivateMobileCruisePanel, with the
\* setupMobileCommandCenter at its end, which finds no class, no flag it can
\* read and no panel, and injects a new panel with new gesture listeners
reactivateMobileCruisePanel ==
    /\ fabShown
    /\ mobilePanelRetreated' = FALSE
    /\ storedFlag' = removeMobilePanelRetreatFlag
    /\ desktopMode' = FALSE
    /\ fabShown' = FabVisibility(FALSE, removeMobilePanelRetreatFlag, FALSE)
    /\ mobilePanel' = TRUE
    /\ panelListeners' = TRUE
    /\ mobileStatus' = Status("initial", 0)
    /\ mobileReport' = Status("initial", 0)
    /\ touches' = <<>>
    /\ startY' = 0
    /\ currentOffset' = 0
    /\ dragging' = FALSE
    /\ panelTransform' = NoTransform
    /\ panelScrollTop' = 0
    /\ timers' = [timers EXCEPT !["panelTransitionEnd"] = 0, !["snapBack"] = 0]
    /\ last' = Eff("user", "reactivateMobileCruisePanel", FALSE, FALSE, FALSE, FALSE)
    /\ NoSend
    /\ UNCHANGED <<mobileUI, storageAvailable>>
    /\ UNCHANGED <<mobileCommandStream, mobileTracks, mobileGum,
                   mobileAutoActive, mobileAutoTimer, mobileIntervals>>
    /\ UNCHANGED OutsidePanel

\* --------------------------------------------------- gestures of the panel
\* setupMobilePanelGestures. touches is event.touches: the fingers on the
\* screen in the order they came down, each with the clientY where it came
\* down and where it is now
DragThreshold == 8
MaxDragOffset == 200
RetreatThreshold == 120
\* where a finger comes down, and where fingers are seen afterwards
TouchStartYs == {100, 310}
TouchYs == {100, 107, 108, 220, 221, 310}

Finger(y0, y) == [start |-> y0, y |-> y]

Abs(n) == IF n < 0 THEN 0 - n ELSE n
Min(a, b) == IF a < b THEN a ELSE b

\* the array without the finger that was lifted
WithoutFinger(fs, i) == [k \in 1..(Len(fs) - 1) |-> IF k < i THEN fs[k] ELSE fs[k + 1]]

\* what the gesture handlers do not write
OutsideGesture == <<mobVars, mobileUI, storageAvailable, panelListeners>>

\* 'touchstart' on the panel: handleStart. A page in desktop view takes no
\* new touch (pointer-events: none).
TouchStart(y) ==
    /\ mobilePanel /\ ~desktopMode
    /\ Len(touches) < MaxFingers
    /\ touches' = Append(touches, Finger(y, y))
    /\ IF Len(touches') > 1
       THEN UNCHANGED <<startY, currentOffset, dragging>>
       ELSE /\ startY' = y
            /\ currentOffset' = 0
            /\ dragging' = FALSE
    /\ last' = Eff("touch", "handleStart", FALSE, FALSE, FALSE, FALSE)
    /\ NoSend
    /\ UNCHANGED <<mobilePanel, mobilePanelRetreated, storedFlag, desktopMode, fabShown,
                   panelTransform, panelScrollTop, timers>>
    /\ UNCHANGED OutsideGesture
    /\ UNCHANGED OutsidePanel

\* resetTransform
resetTransform ==
    /\ panelTransform' = NoTransform
    /\ currentOffset' = 0
    /\ dragging' = FALSE

\* 'touchmove': handleMove, finger i moves to y
TouchMove(i, y) ==
    /\ mobilePanel
    /\ i \in 1..Len(touches)
    /\ y # touches[i].y
    /\ touches' = [touches EXCEPT ![i].y = y]
    /\ LET delta == touches'[1].y - startY
           pullingDown == delta > 0
       IN  IF Len(touches') > 1
           THEN UNCHANGED <<currentOffset, dragging, panelTransform>>
           ELSE IF ~pullingDown \/ panelScrollTop > 0
           THEN IF dragging
                THEN resetTransform
                ELSE UNCHANGED <<currentOffset, dragging, panelTransform>>
           ELSE IF ~dragging /\ Abs(delta) < DragThreshold
           THEN UNCHANGED <<currentOffset, dragging, panelTransform>>
           ELSE /\ dragging' = TRUE
                /\ currentOffset' = Min(delta, MaxDragOffset)
                /\ panelTransform' = Min(delta, MaxDragOffset)
    /\ last' = Eff("touch", "handleMove", FALSE, FALSE, FALSE, FALSE)
    /\ NoSend
    /\ UNCHANGED <<mobilePanel, mobilePanelRetreated, storedFlag, desktopMode, fabShown,
                   startY, panelScrollTop, timers>>
    /\ UNCHANGED OutsideGesture
    /\ UNCHANGED OutsidePanel

\* commitPosition
commitPosition ==
    /\ IF currentOffset > RetreatThreshold
       THEN retreatMobilePanelToDesktop
       ELSE IF currentOffset > 0
       THEN /\ panelTransform' = 0
            /\ timers' = [timers EXCEPT !["snapBack"] = 1]
            /\ UNCHANGED <<mobilePanelRetreated, storedFlag, desktopMode, fabShown>>
       ELSE /\ panelTransform' = NoTransform
            /\ UNCHANGED <<mobilePanelRetreated, storedFlag, desktopMode, fabShown, timers>>
    /\ dragging' = FALSE
    /\ currentOffset' = 0

\* 'touchend' / 'touchcancel': handleEnd, finger i leaves the screen
TouchEnd(i) ==
    /\ mobilePanel
    /\ i \in 1..Len(touches)
    /\ timers["teardown"] < MaxPendingTeardowns
    /\ timers["desktopReload"] < MaxPendingTeardowns
    /\ touches' = WithoutFinger(touches, i)
    /\ IF ~dragging
       THEN UNCHANGED <<mobilePanelRetreated, storedFlag, desktopMode, fabShown,
                        panelTransform, timers, dragging, currentOffset>>
       ELSE commitPosition
    /\ last' = Eff("touch", "handleEnd", FALSE, FALSE, FALSE, FALSE)
    /\ NoSend
    /\ UNCHANGED <<mobilePanel, startY, panelScrollTop>>
    /\ UNCHANGED OutsideGesture
    /\ UNCHANGED OutsidePanel

\* the content of the panel is scrolled away from its top or back to it
PanelScroll ==
    /\ mobilePanel
    /\ panelScrollTop' = 1 - panelScrollTop
    /\ last' = Eff("scroll", "scroll", FALSE, FALSE, FALSE, FALSE)
    /\ NoSend
    /\ UNCHANGED <<mobilePanel, mobilePanelRetreated, storedFlag, desktopMode, fabShown,
                   touches, startY, currentOffset, dragging, panelTransform, timers>>
    /\ UNCHANGED OutsideGesture
    /\ UNCHANGED OutsidePanel

\* ------------------------------------------------- page hidden / unloaded
\* the 'visibilitychange' listeners of setupRecognition and, when the mobile
\* panel was set up, of setupMobileCommandCenter
VisibilityChange ==
    /\ documentHidden' = ~documentHidden
    /\ IF documentHidden'
       THEN stopRecognitionCamera /\ released' = TRUE
       ELSE UNCHANGED <<recognitionStream, videoSrc, tracks, released>>
    /\ IF documentHidden' /\ panelListeners
       THEN stopMobileCamera
       ELSE UNCHANGED <<mobileCommandStream, mobileTracks, mobileAutoActive, mobileAutoTimer, mobileIntervals>>
    /\ last' = Eff("page", "visibilitychange", FALSE, FALSE, FALSE, FALSE)
    /\ NoSend
    /\ UNCHANGED <<gumPending, recognitionStatus>>
    /\ UNCHANGED <<mobilePanel, mobileGum, mobileStatus, mobileReport>>
    /\ UNCHANGED OutsideRecognitionCamera

\* the 'beforeunload' listeners of the same two (the unload may be cancelled)
BeforeUnload ==
    /\ stopRecognitionCamera
    /\ released' = TRUE
    /\ IF panelListeners
       THEN stopMobileCamera
       ELSE UNCHANGED <<mobileCommandStream, mobileTracks, mobileAutoActive, mobileAutoTimer, mobileIntervals>>
    /\ last' = Eff("page", "beforeunload", FALSE, FALSE, FALSE, FALSE)
    /\ NoSend
    /\ UNCHANGED <<gumPending, documentHidden, recognitionStatus>>
    /\ UNCHANGED <<mobilePanel, mobileGum, mobileStatus, mobileReport>>
    /\ UNCHANGED OutsideRecognitionCamera

\* ========================================================== specifications
PwIdle     == pwInput = <<>> /\ pwResult = NULL
SearchIdle == qCat = Cat1 /\ qQuery = <<>> /\ qResult = NULL
\* a desktop browser without a session
PageIdle   == session = NoUser /\ PageAtLoad /\ mobilePanel = FALSE /\ MobileAtLoad

\* ---- validatePassword on every input of at most MaxPwLen characters
InitPasswordSpec == InitPassword /\ SearchIdle /\ CatsAtLoad /\ CameraAtLoad /\ ServerIdle /\ PageIdle

NextPassword ==
    CallValidatePassword /\ UNCHANGED <<searchVars, catVars, camVars, srvVars, pageVars>>

SpecPassword == InitPasswordSpec /\ [][NextPassword]_vars

\* ---- matchesQuery on every query of at most MaxQueryLen characters
InitSearchSpec == InitSearch /\ PwIdle /\ CatsAtLoad /\ CameraAtLoad /\ ServerIdle /\ PageIdle

NextSearch ==
    CallMatchesQuery /\ UNCHANGED <<pwVars, catVars, camVars, srvVars, pageVars>>

SpecSearch == InitSearchSpec /\ [][NextSearch]_vars

\* ---- the cat list: loads, search-box input, reload
InitCats == PwIdle /\ SearchIdle /\ CatsAtLoad /\ CameraAtLoad /\ ServerIdle /\ PageIdle

\* what the callbacks of the cat view leave alone
OutsideCats == <<pwVars, searchVars, camVars, srvVars, authVars, formVars, panelVars, modal, adoptVars, resetVars,
                 recVars, mobVars, timers, failedEps, codeSentTo>>

NextCats ==
    \/ (\E ok \in BOOLEAN : \E cats \in ServerCatLists : CatsResponseJson(ok, cats, TRUE))
          /\ UNCHANGED OutsideCats
    \/ (\E ok \in BOOLEAN : CatsResponseJson(ok, <<>>, FALSE)) /\ UNCHANGED OutsideCats
    \/ fallbackToHardcodedData /\ UNCHANGED OutsideCats
    \/ (\E text \in SearchTexts : SearchInput(text)) /\ UNCHANGED OutsideCats
    \/ Reload

SpecCats == InitCats /\ [][NextCats]_vars

\* ---- the recognition camera: clicks, grants, denials, hide/show, unload
InitCamera == PwIdle /\ SearchIdle /\ CatsAtLoad /\ CameraAtLoad /\ ServerIdle /\ PageIdle

NextCamera ==
    \/ startRecognitionCamera
    \/ CameraGranted
    \/ CameraDenied
    \/ VisibilityChange
    \/ BeforeUnload

SpecCamera == InitCamera /\ [][NextCamera]_vars

\* ---- login state: the two /api/current_user checks, the login modal,
\* ---- logout, reload, and the adopt buttons of the cards
ServedCats == <<Cat1, Cat2>>
CatIds == {1, 2, 3}

InitAuth ==
    /\ PwIdle /\ SearchIdle /\ CatsAtLoad /\ CameraAtLoad /\ ServerIdle
    /\ session \in {NoUser} \cup Users
    /\ PageAtLoad /\ mobilePanel = FALSE /\ MobileAtLoad

NextAuth ==
    \/ \E user \in CheckAnswers : AuthStatusResponse(user)
    \/ AuthStatusFailure
    \/ \E user \in CheckAnswers : CurrentUserResponse(user)
    \/ CurrentUserFailure
    \/ CatsResponseJson(TRUE, ServedCats, TRUE) /\ UNCHANGED OutsideCats
    \/ ClickLoginBtn
    \/ CloseAuthModal("login")
    \/ \E email \in LoginEmails : \E password \in LoginPasswords : handleLogin(email, password)
    \/ \E r \in inflight : LoginFailure(r)
    \/ \E r \in inflight : \E user \in Users : LoginSuccess(r, user)
    \/ ClickLogout
    \/ \E r \in inflight : AuthLogoutDone(r)
    \/ \E r \in inflight : MainLogoutDone(r)
    \/ \E r \in inflight : LogoutFailure(r)
    \/ \E catId \in CatIds : handleAdoptClick(catId)
    \/ ClickCloseAdoption
    \/ Reload

SpecAuth == InitAuth /\ [][NextAuth]_vars

\* ---- registration: the register modal and its form
InitRegister == PwIdle /\ SearchIdle /\ CatsAtLoad /\ CameraAtLoad /\ ServerIdle /\ PageIdle

NextRegister ==
    \/ ClickRegisterBtn
    \/ CloseAuthModal("register")
    \/ \E name \in RegisterNames : \E email \in RegisterEmails :
       \E password \in RegisterPasswords : \E confirmPassword \in RegisterPasswords :
           handleRegister(name, email, password, confirmPassword)
    \/ \E r \in inflight : RegisterSuccess(r)
    \/ \E r \in inflight : RegisterFailure(r)

SpecRegister == InitRegister /\ [][NextRegister]_vars

\* ---- signing up and logging in: the register and login modals, the two
\* ---- /api/current_user checks, logout and reload
AdminUser == MkUser(3, TRUE, TRUE)

InitSignup ==
    /\ PwIdle /\ SearchIdle /\ CatsAtLoad /\ CameraAtLoad /\ ServerIdle
    /\ session \in {NoUser, MkUser(2, FALSE, FALSE), AdminUser}
    /\ PageAtLoad /\ mobilePanel = FALSE /\ MobileAtLoad

NextSignup ==
    \/ \E user \in CheckAnswers : AuthStatusResponse(user)
    \/ AuthStatusFailure
    \/ \E user \in CheckAnswers : CurrentUserResponse(user)
    \/ CurrentUserFailure
    \/ ClickLoginBtn
    \/ ClickRegisterBtn
    \/ \E from \in {"login", "register"} : \E to \in {"login", "register"} : SwitchModal(from, to)
    \/ \E type \in {"login", "register"} : CloseAuthModal(type)
    \/ \E password \in {PwGood, <<"a", "1">>} : handleRegister(<<"x">>, EmailA, password, PwGood)
    \/ \E r \in inflight : RegisterSuccess(r)
    \/ \E r \in inflight : RegisterFailure(r)
    \/ handleLogin(EmailA, PwGood)
    \/ \E r \in inflight : LoginFailure(r)
    \/ \E r \in inflight : \E user \in {MkUser(2, FALSE, FALSE), AdminUser} : LoginSuccess(r, user)
    \/ ClickLogout
    \/ \E r \in inflight : AuthLogoutDone(r)
    \/ \E r \in inflight : MainLogoutDone(r)
    \/ \E r \in inflight : LogoutFailure(r)
    \/ Reload

SpecSignup == InitSignup /\ [][NextSignup]_vars

\* ---- the static file server: requests for files, directories, missing
\* ---- files and URLs with a query string, over every content of the directory
InitServer == PwIdle /\ SearchIdle /\ CatsAtLoad /\ CameraAtLoad /\ ServerStarted /\ PageIdle

NextServer ==
    \/ (\E url \in Urls : ReceiveRequest(url))
          /\ UNCHANGED <<pwVars, searchVars, catVars, camVars, pageVars>>
    \/ (\E i \in 1..Len(requests) : ReadFileCallback(i))
          /\ UNCHANGED <<pwVars, searchVars, catVars, camVars, pageVars>>
    \/ (\E i \in 1..Len(requests) : ReadFile404Callback(i))
          /\ UNCHANGED <<pwVars, searchVars, catVars, camVars, pageVars>>

SpecServer == InitServer /\ [][NextServer]_vars

\* ---- the adopt buttons: clicks on the cards of lists in which an id occurs
\* ---- twice or is missing, by visitors with and without a session
CatTwin == MkCat(2, <<"c">>, NoText, NoText, NoText, FALSE)
CatNoId == MkCat(NoId, <<"d">>, NoText, NoText, NoText, FALSE)
AdoptionLists == {<<Cat1, Cat2>>, <<Cat2, CatTwin, Cat1>>, <<CatNoId, Cat3>>}
ClickIds == {1, 2, 3, NoId}

InitAdoptClick ==
    /\ PwIdle /\ SearchIdle /\ CatsAtLoad /\ CameraAtLoad /\ ServerIdle
    /\ session \in {NoUser, MkUser(1, TRUE, FALSE)}
    /\ PageAtLoad /\ mobilePanel = FALSE /\ MobileAtLoad

NextAdoptClick ==
    \/ \E user \in CheckAnswers : AuthStatusResponse(user)
    \/ AuthStatusFailure
    \/ (\E cats \in AdoptionLists : CatsResponseJson(TRUE, cats, TRUE)) /\ UNCHANGED OutsideCats
    \/ fallbackToHardcodedData /\ UNCHANGED OutsideCats
    \/ \E catId \in ClickIds : handleAdoptClick(catId)
    \/ ClickCloseAdoption
    \/ CloseAuthModal("login")
    \/ Reload

SpecAdoptClick == InitAdoptClick /\ [][NextAdoptClick]_vars

\* the adoption modal from the click on a card to the close timer, with the
\* lists the server may send, the search box and reloads
NextAdoption ==
    \/ \E user \in CheckAnswers : AuthStatusResponse(user)
    \/ (\E cats \in AdoptionLists : CatsResponseJson(TRUE, cats, TRUE)) /\ UNCHANGED OutsideCats
    \/ fallbackToHardcodedData /\ UNCHANGED OutsideCats
    \/ \E catId \in ClickIds : handleAdoptClick(catId)
    \/ ClickCloseAdoption
    \/ \E contactField \in Contacts : submitAdoptionForm(contactField)
    \/ \E r \in inflight : AdoptSuccess(r)
    \/ \E r \in inflight : AdoptFailure(r)
    \/ AdoptionCloseTimer
    \/ CloseAuthModal("login")
    \/ Reload

SpecAdoption == InitAdoptClick /\ [][NextAdoption]_vars

\* ---- forgotten passwords: the forgot-password and reset-password modals,
\* ---- their requests and their timers, with two addresses
EmailB == <<"b", "@", "b", ".", "c">>

InitReset == PwIdle /\ SearchIdle /\ CatsAtLoad /\ CameraAtLoad /\ ServerIdle /\ PageIdle

NextReset ==
    \/ ClickLoginBtn
    \/ \E from \in {"login", "forgotPassword"} : \E to \in {"login", "forgotPassword"} :
           SwitchModal(from, to)
    \/ \E type \in {"login", "forgotPassword", "resetPassword"} : CloseAuthModal(type)
    \/ \E emailField \in {<<"a">>, EmailA, EmailB} : handleForgotPassword(emailField)
    \/ \E r \in inflight : ForgotSent(r)
    \/ \E r \in inflight : ForgotNotSent(r)
    \/ \E r \in inflight : ForgotFailure(r)
    \/ OpenResetTimer
    \/ ClickForgotFromReset
    \/ \E code \in ResetCodes : handleResetPassword(code, PwGood, PwGood)
    \/ \E r \in inflight : ResetDone(r)
    \/ \E r \in inflight : ResetRejected(r)
    \/ \E r \in inflight : ResetFailure(r)
    \/ ResetDoneTimer
    \/ Reload

SpecReset == InitReset /\ [][NextReset]_vars

\* ---- uploads for recognition and every answer of /api/cats/recognize
InitRecognize ==
    /\ PwIdle /\ SearchIdle /\ CatsAtLoad /\ CameraAtLoad /\ ServerIdle
    /\ session \in {NoUser, MkUser(1, TRUE, FALSE)}
    /\ PageAtLoad /\ mobilePanel = FALSE /\ MobileAtLoad

NextRecognize ==
    \/ \E chosen \in BOOLEAN : SelectFile(chosen)
    \/ handleRecognitionUpload
    \/ \E r \in inflight : \E status \in AnswerStatuses : \E body \in AnswerBodies :
           recognizeCatImageAnswer(r, status, body)
    \/ \E r \in inflight : RecognizeFailure(r)
    \/ CloseAuthModal("login")
    \/ Reload

SpecRecognize == InitRecognize /\ [][NextRecognize]_vars

\* ---- the mobile panel: cruise, snapshots, camera grants and denials, page
\* ---- hidden, retreat with its delayed teardown and reload, and the return
\* ---- by the FAB; with and without a usable session storage
InitPanel ==
    /\ PwIdle /\ SearchIdle /\ CatsAtLoad /\ CameraAtLoad /\ ServerIdle
    /\ session = NoUser
    /\ PageAtLoad /\ mobilePanel = TRUE
    /\ \E storage \in BOOLEAN : MobileLoaded(storage)

\* the camera is asked for while the streams it has given and the requests
\* it has not answered are fewer than MaxMobileStreams
CameraBudget == Len(mobileTracks) + Len(mobileGum) < MaxMobileStreams

NextPanel ==
    \/ (mobileCommandStream # NoStream \/ CameraBudget) /\ toggleMobileAuto(FALSE, TRUE)
    \/ (mobileCommandStream # NoStream \/ CameraBudget) /\ captureMobileSnapshot(FALSE, TRUE)
    \/ \E i \in 1..Len(mobileGum) : MobileCameraGranted(i, FALSE, TRUE)
    \/ \E i \in 1..Len(mobileGum) : MobileCameraDenied(i)
    \/ MobileAutoTick(FALSE, TRUE)
    \/ VisibilityChange
    \/ ClickRetreat
    \/ TeardownTimer
    \/ PanelTransitionEnd
    \/ DesktopReloadTimer
    \/ reactivateMobileCruisePanel
    \/ Reload

SpecPanel == InitPanel /\ [][NextPanel]_vars

\* the gestures of the panel, with the retreat they lead to
NextGesture ==
    \/ \E y \in TouchStartYs : TouchStart(y)
    \/ \E i \in 1..MaxFingers, y \in TouchYs : TouchMove(i, y)
    \/ \E i \in 1..MaxFingers : TouchEnd(i)
    \/ PanelScroll
    \/ TeardownTimer
    \/ PanelTransitionEnd
    \/ DesktopReloadTimer
    \/ reactivateMobileCruisePanel

SpecGesture == InitPanel /\ [][NextGesture]_vars

\* ---- overlapping requests: uploads to the recognition section and
\* ---- submissions of the adoption form, by a user logged in at load
InitOverlap ==
    /\ PwIdle /\ SearchIdle /\ CatsAtLoad /\ CameraAtLoad /\ ServerIdle
    /\ session = MkUser(1, TRUE, FALSE)
    /\ PageAtLoad /\ mobilePanel = FALSE /\ MobileAtLoad

NextOverlap ==
    \/ AuthStatusResponse(session)
    \/ CatsResponseJson(TRUE, ServedCats, TRUE) /\ UNCHANGED OutsideCats
    \/ handleAdoptClick(1)
    \/ ClickCloseAdoption
    \/ \E contactField \in Contacts : submitAdoptionForm(contactField)
    \/ \E r \in inflight : AdoptSuccess(r)
    \/ \E r \in inflight : AdoptFailure(r)
    \/ AdoptionCloseTimer
    \/ \E chosen \in BOOLEAN : SelectFile(chosen)
    \/ handleRecognitionUpload
    \/ \E r \in inflight : RecognizeOk(r)
    \/ \E r \in inflight : RecognizeUnauthorized(r)
    \/ \E r \in inflight : RecognizeFailure(r)
    \/ CloseAuthModal("login")

SpecOverlap == InitOverlap /\ [][NextOverlap]_vars

\* ---- the operations that talk to the server: login, password reset,
\* ---- registration, adoption, recognition by upload and the cruise loop of
\* ---- the mobile panel. The visitor turns to an operation when the others
\* ---- have left no trace on the page (a reload removes every trace).
Operations == {"login", "reset", "register", "adoption", "recognition", "cruise"}

Endpoints(op) ==
    CASE op = "login"       -> {"login"}
      [] op = "reset"       -> {"forgot-password", "reset-password"}
      [] op = "register"    -> {"register"}
      [] op = "adoption"    -> {"adopt"}
      [] op = "recognition" -> {"recognize"}
      [] op = "cruise"      -> {"recognize"}

Untouched(op) ==
    CASE op = "login" ->
            /\ ~loginDone
            /\ \A r \in inflight : r.ep # "login"
      [] op = "reset" ->
            /\ ~modal["forgotPassword"] /\ ~modal["resetPassword"]
            /\ forgotStatus = "hidden" /\ resetStatus = "hidden"
            /\ resetPasswordEmail = <<>> /\ codeSentTo = {}
            /\ timers["openReset"] = 0 /\ timers["resetDone"] = 0
            /\ \A r \in inflight : r.ep \notin Endpoints("reset")
      [] op = "register" ->
            /\ ~modal["register"]
            /\ \A r \in inflight : r.ep # "register"
      [] op = "adoption" ->
            /\ ~modal["adoption"]
            /\ adoptionStatus = Status("hidden", 0)
            /\ timers["closeAdoption"] = 0
            /\ \A r \in inflight : r.ep # "adopt"
      [] op = "recognition" ->
            /\ recognitionStatus = Status("initial", 0)
            /\ recognitionResults = Status("placeholder", 0)
            /\ ~fileSelected
            /\ \A r \in inflight : r.src # "upload"
      [] op = "cruise" ->
            /\ mobileStatus = Status("initial", 0)
            /\ mobileReport = Status("initial", 0)
            /\ mobileGum = <<>> /\ mobileTracks = <<>>
            /\ \A r \in inflight : r.src \notin MobileSources

TurnedTo(op) ==
    /\ \A other \in Operations \ {op} : Untouched(other)
    /\ failedEps \subseteq Endpoints(op)

InitOps ==
    /\ PwIdle /\ SearchIdle /\ CatsAtLoad /\ CameraAtLoad /\ ServerIdle
    /\ session \in {NoUser, MkUser(1, TRUE, FALSE)}
    /\ PageAtLoad /\ mobilePanel = TRUE /\ MobileAtLoad

NextOps ==
    \/ \E user \in CheckAnswers : AuthStatusResponse(user)
    \/ CatsResponseJson(TRUE, ServedCats, TRUE) /\ UNCHANGED OutsideCats
    \/ Reload
    \/ \E type \in ModalTypes : CloseAuthModal(type)
    \/ (TurnedTo("login") \/ TurnedTo("reset")) /\ ClickLoginBtn
    \/ TurnedTo("reset") /\ (\E from \in ModalTypes : \E to \in ModalTypes \ {"register"} :
                                 SwitchModal(from, to))
    \/ TurnedTo("login") /\ (\E email \in LoginEmails : \E password \in LoginPasswords :
                                   handleLogin(email, password))
    \/ \E r \in inflight : LoginFailure(r)
    \/ \E r \in inflight : LoginSuccess(r, MkUser(1, TRUE, FALSE))
    \/ TurnedTo("reset") /\ nextId < MaxRequests
          /\ (\E emailField \in {<<>>, <<"a">>, EmailA} : handleForgotPassword(emailField))
    \/ \E r \in inflight : ForgotSent(r)
    \/ \E r \in inflight : ForgotNotSent(r)
    \/ \E r \in inflight : ForgotFailure(r)
    \/ OpenResetTimer
    \/ TurnedTo("reset") /\ ClickForgotFromReset
    \/ TurnedTo("reset") /\ nextId <= MaxRequests
          /\ (\E code \in ResetCodes : \E password \in {PwGood, <<"a", "1">>} :
                  handleResetPassword(code, password, PwGood))
    \/ \E r \in inflight : ResetDone(r)
    \/ \E r \in inflight : ResetRejected(r)
    \/ \E r \in inflight : ResetFailure(r)
    \/ ResetDoneTimer
    \/ TurnedTo("register") /\ ClickRegisterBtn
    \/ TurnedTo("register") /\ (\E password \in {PwGood, <<"a", "1">>} :
                                    handleRegister(<<"x">>, EmailA, password, PwGood))
    \/ \E r \in inflight : RegisterSuccess(r)
    \/ \E r \in inflight : RegisterFailure(r)
    \/ TurnedTo("adoption") /\ handleAdoptClick(1)
    \/ ClickCloseAdoption
    \/ TurnedTo("adoption") /\ (\E contactField \in Contacts : submitAdoptionForm(contactField))
    \/ \E r \in inflight : AdoptSuccess(r)
    \/ \E r \in inflight : AdoptFailure(r)
    \/ AdoptionCloseTimer
    \/ TurnedTo("recognition") /\ (\E chosen \in BOOLEAN : SelectFile(chosen))
    \/ TurnedTo("recognition") /\ handleRecognitionUpload
    \/ \E r \in inflight : RecognizeOk(r)
    \/ \E r \in inflight : RecognizeUnauthorized(r)
    \/ \E r \in inflight : RecognizeFailure(r)
    \/ TurnedTo("cruise") /\ Len(mobileGum) < MaxMobileGum
          /\ (\E ready \in BOOLEAN : \E blobOk \in BOOLEAN : toggleMobileAuto(ready, blobOk))
    \/ TurnedTo("cruise") /\ Len(mobileGum) < MaxMobileGum
          /\ (\E ready \in BOOLEAN : \E blobOk \in BOOLEAN : captureMobileSnapshot(ready, blobOk))
    \/ \E i \in 1..Len(mobileGum) : \E ready \in BOOLEAN : \E blobOk \in BOOLEAN :
           MobileCameraGranted(i, ready, blobOk)
    \/ \E i \in 1..Len(mobileGum) : MobileCameraDenied(i)
    \/ \E ready \in BOOLEAN : \E blobOk \in BOOLEAN : MobileAutoTick(ready, blobOk)

SpecOps == InitOps /\ [][NextOps]_vars

\* ================================================================== claims

\* ---- C1 ------------------------------------------------------------------
\* C1: once AuthSystem.login has succeeded on the page (and nobody has logged
\* out since), a click on the adopt button of a cat that is not adopted opens
\* the adoption form for that cat, without the 'please log in first' alert.
C1_AdoptAfterLoginOpensTheForm ==
    (loginDone /\ last.op = "handleAdoptClick") =>
        /\ ~last.alert
        /\ modal["adoption"]
        /\ pendingAdoptionCat # NoCat

\* ---- C2 ------------------------------------------------------------------
\* the password rule of the regular expression, stated on its own: eight or
\* more characters, all of them letters, digits or @$!%*#?&, with a letter
\* and a digit among them
C2_PasswordPasses(p) ==
    /\ Len(p) >= 8
    /\ {p[i] : i \in 1..Len(p)} \subseteq Letters \cup Digits \cup PwSpecials
    /\ {p[i] : i \in 1..Len(p)} \cap Letters # {}
    /\ {p[i] : i \in 1..Len(p)} \cap Digits # {}

C2_FormIsValid(a) ==
    /\ a.name # <<>> /\ a.email # <<>> /\ a.password # <<>> /\ a.confirm # <<>>
    /\ validateEmail(a.email)
    /\ C2_PasswordPasses(a.password)
    /\ a.password = a.confirm

\* C2: handleRegister sends POST /api/register exactly when the four fields
\* are non-empty, the email and the password pass their validators and the
\* password equals its confirmation; otherwise it sends nothing and the
\* register modal stays open.
C2_RegisterSendsOnlyValidForms ==
    (last.kind = "user" /\ last.op = "register") =>
        IF C2_FormIsValid(last.args)
        THEN /\ sent \in inflight
             /\ sent.ep = "register"
             /\ sent.email = last.args.email
        ELSE /\ sent = NoReq
             /\ modal["register"]

\* a form rejected for its password alone: well-formed email, matching
\* confirmation, but no digit
C2_Witness ==
    /\ last.kind = "user" /\ last.op = "register"
    /\ last.args.name # <<>>
    /\ validateEmail(last.args.email)
    /\ last.args.password = last.args.confirm
    /\ Len(last.args.password) >= 8
    /\ ~C2_PasswordPasses(last.args.password)
    /\ sent = NoReq
    /\ modal["register"]

\* ---- C3 ------------------------------------------------------------------
HasLetter(s) == \E i \in 1..Len(s) : s[i] \in Letters
HasDigit(s)  == \E i \in 1..Len(s) : s[i] \in Digits

\* C3: validatePassword accepts a password exactly when it has at least 8
\* characters, a letter and a digit (the rule of the comment and of the
\* reset-password message).
C3_AcceptsExactlyTheStatedRule ==
    pwResult # NULL =>
        (pwResult = "true" <=>
            (Len(pwInput) >= 8 /\ HasLetter(pwInput) /\ HasDigit(pwInput)))

\* ---- C4 ------------------------------------------------------------------
\* the terms of a query: its maximal runs of non-whitespace characters
QueryTerms(q) ==
    {SubSeq(q, i, j) : <<i, j>> \in
        {ij \in (1..Len(q)) \X (1..Len(q)) :
            /\ ij[1] <= ij[2]
            /\ \A k \in ij[1]..ij[2] : q[k] \notin Whitespace
            /\ (ij[1] = 1 \/ q[ij[1] - 1] \in Whitespace)
            /\ (ij[2] = Len(q) \/ q[ij[2] + 1] \in Whitespace)}}

IsSubstring(t, h) == \E i \in 1..(Len(h) + 1) : \E j \in 0..Len(h) : SubSeq(h, i, j) = t

\* t is h with some characters left out
RECURSIVE IsSubsequence(_, _)
IsSubsequence(t, h) ==
    IF t = <<>> THEN TRUE
    ELSE IF h = <<>> THEN FALSE
    ELSE \/ (Head(t) = Head(h) /\ IsSubsequence(Tail(t), Tail(h)))
         \/ IsSubsequence(t, Tail(h))

SearchedText(cat) ==
    toLowerCase(cat.name \o <<" ">> \o cat.age \o <<" ">> \o cat.gender \o <<" ">>
                \o cat.description \o <<" ">> \o cat.special_notes \o <<" ">>
                \o cat.unique_markings \o <<" ">> \o cat.last_known_location)

MatchesAsSpecified(cat, query) ==
    \A term \in QueryTerms(toLowerCase(query)) :
        IsSubstring(term, SearchedText(cat)) \/ IsSubsequence(term, SearchedText(cat))

\* C4: matchesQuery(cat, query) is true exactly when every whitespace-separated
\* term of the lower-cased query is a substring or an in-order subsequence of
\* the lower-cased, space-joined fields; a query without terms matches.
C4_MatchesQueryIsSubsequenceScan ==
    qResult # NULL => (qResult = "true" <=> MatchesAsSpecified(qCat, qQuery))

\* a query of two terms matched, one of them only as a scattered subsequence;
\* and (elsewhere) a query rejected
C4_Witness ==
    /\ qResult = "true"
    /\ Cardinality(QueryTerms(toLowerCase(qQuery))) = 2
    /\ \E term \in QueryTerms(toLowerCase(qQuery)) :
          ~IsSubstring(term, SearchedText(qCat))

\* ---- C5 ------------------------------------------------------------------
\* C5: once the script has rendered the list, the cards are exactly the cats of
\* allCats that match the text in the search box, in allCats order.
C5_ListShowsTheMatchesOfTheSearchBox ==
    ~catList.static =>
        catList.cards = SelectSeq(allCats, LAMBDA cat : matchesQuery(cat, catSearchInput))

\* ---- C6 ------------------------------------------------------------------
RetryEndpoints == {"login", "register", "adopt", "recognize"}
\* callbacks that act on a click: the handler itself and the continuation of
\* the camera permission the click asked for
UserDriven == {"user", "grant"}

\* the last callback sent a request to an endpoint that has failed before
SentAfterFailure ==
    sent # NoReq /\ sent.ep \in RetryEndpoints /\ sent.ep \in failedEps

\* C6 as stated: after a request to /api/login, /api/register,
\* /api/cats/:id/adopt or /api/cats/recognize has failed, a further request to
\* that endpoint is sent only in response to a user action.
C6_NoRequestWithoutUserAction ==
    SentAfterFailure => last.kind \in UserDriven

\* C6, amended: no response handler ever sends a request, and after a failure
\* a further request to the endpoint is sent only in response to a user action
\* or, for /api/cats/recognize, by the interval of the cruise loop while the
\* cruise is active.
C6_OnlyTheCruiseLoopSendsUnasked ==
    /\ settled # NoReq => sent = NoReq
    /\ SentAfterFailure =>
          \/ last.kind \in UserDriven
          \/ /\ last.kind = "interval"
             /\ sent.ep = "recognize" /\ sent.src = "mobile-auto"
             /\ mobileAutoActive /\ mobileAutoTimer

\* the visitor submits again after a failure
C6_Witness ==
    /\ SentAfterFailure
    /\ last.kind = "user"
    /\ sent \in inflight

ReportingOperations ==
    {"login", "register", "forgotPassword", "resetPassword", "adopt", "recognize"}

\* the status element of the operation shows one of its error texts
ShowsError(op) ==
    CASE op = "forgotPassword" ->
            forgotStatus \in {"enter-email", "enter-valid-email", "send-failed"}
      [] op = "resetPassword" ->
            resetStatus \in {"enter-6-digit-code", "fill-in-all-fields", "passwords-differ",
                             "password-too-weak", "reset-failed"}
      [] op = "adopt" ->
            adoptionStatus.text \in {"cat-not-found", "contact-required", "submit-failed"}
      [] op = "recognize" ->
            \/ recognitionStatus.text \in {"choose-a-file", "start-the-camera-first",
                                           "capture-failed", "login-required",
                                           "recognition-failed"}
            \/ mobileStatus.text \in {"camera-not-ready", "sample-failed",
                                      "login-required", "recognition-failed"}
      [] OTHER -> FALSE

C9_AtMostOneLiveStream ==
    /\ Cardinality(RunningStreams) <= 1
    /\ \A s \in 1..Len(tracks) : s = recognitionStream \/ tracks[s] = "stopped"

\* ---- C10 -----------------------------------------------------------------
\* C10: from the moment the page is hidden or unloaded until the next click on
\* start-camera, recognitionStream is null and no stream has running tracks.
C10_ReleasedWhileHidden ==
    released => (recognitionStream = NoStream /\ RunningStreams = {})

\* ---- C11 -----------------------------------------------------------------
\* C11: #uploadCatBtn is displayed only when the user of the session is
\* verified or is an admin: a logged-in user who is neither never sees it,
\* whatever the order of the two /api/current_user responses.
C11_UploadOnlyForVerifiedOrAdmin ==
    (session # NoUser /\ ~session.is_verified /\ ~session.is_admin) => ~uploadBtn

\* ---- C12 -----------------------------------------------------------------
\* the load failed: network error, unparsable body or an error response
CatsLoadFailed == catsResponse.body \in {"none", "unparsable"} \/ ~catsResponse.ok

\* C12: when the answer to GET /api/cats has been handled, allCats and the
\* rendered cards are the four hardcoded cats if the load failed, and allCats
\* is the array the server returned if it succeeded with one.
C12_FallbackOnEveryFailure ==
    (last.kind = "response" /\ last.op = "loadCatData") =>
        /\ CatsLoadFailed => (allCats = HardcodedCats /\ catList.cards = HardcodedCats)
        /\ (catsResponse.ok /\ catsResponse.body = "array") => allCats = catsResponse.cats

\* ---- C13 -----------------------------------------------------------------
\* the page shows nobody as logged in
LoggedOutUI == loginBtn /\ userInfo = "none" /\ ~uploadBtn /\ ~adminBtn

\* C13: the handler of a successful POST /api/register closes the register
\* modal and resets its form and leaves the login state of the page as it is;
\* once both /api/current_user checks of the load are done, a page that shows
\* nobody as logged in stays so until a successful login.
C13_RegistrationNeverLogsIn ==
    [][ /\ (settled' # NoReq /\ settled'.ep = "register" /\ ~last'.err) =>
              /\ ~modal'["register"]
              /\ registerForm' = NoArgs
              /\ UNCHANGED <<session, currentUser, userInfo, loginBtn, uploadBtn, adminBtn>>
        /\ (authCheck = "done" /\ userCheck = "done" /\ LoggedOutUI /\ ~LoggedOutUI') =>
              (settled'.ep = "login" /\ ~last'.err)
      ]_vars

\* a registration has succeeded on a page that shows nobody as logged in
C13_Witness ==
    /\ settled.ep = "register" /\ ~last.err
    /\ authCheck = "done" /\ userCheck = "done"
    /\ LoggedOutUI /\ currentUser = NoUser
    /\ ~modal["register"] /\ registerForm = NoArgs

\* ---- C14 -----------------------------------------------------------------
\* the file a URL asks for: its path without the query string, '/' standing
\* for index.html
RequestedFile(url) ==
    filePath(SelectSeq(url, LAMBDA part : ~IsQuery(part)))

\* C14: a request whose handler has finished has exactly one response (and none
\* before): status 200 with the content of the requested file when it can be
\* read, 404 when it does not exist, 500 for any other read error.
C14_OneResponsePerRequest ==
    \A i \in 1..Len(requests) :
        LET req    == requests[i]
            result == readFile(RequestedFile(req.url))
        IN  IF req.at # "done"
            THEN req.responses = <<>>
            ELSE /\ Len(req.responses) = 1
                 /\ result = "file" =>
                        req.responses[1] = Response(200, RequestedFile(req.url))
                 /\ result = "ENOENT" => req.responses[1].status = 404
                 /\ result \notin {"file", "ENOENT"} => req.responses[1].status = 500

\* ---- C15 -----------------------------------------------------------------
\* the user of the session the page was loaded with has logged out on this
\* page (a reload would make loadSession the empty session)
LoggedOutHere == loadSession # NoUser /\ session = NoUser

\* C15: once a logout through #logoutBtn has completed, currentUser is null,
\* and a click on an adopt button shows the 'please log in first' alert and
\* opens the login modal, not the adoption form.
C15_LogoutClearsCurrentUser ==
    LoggedOutHere =>
        /\ currentUser = NoUser
        /\ last.op = "handleAdoptClick" =>
              (last.alert /\ modal["login"] /\ ~modal["adoption"])

\* ---- C16 -----------------------------------------------------------------
\* the id the last click handler was called with
ClickedId(l) == CHOOSE id \in ClickIds : l.args = ClickArgs(id)

\* the cats of allCats with the id, in the order of the list
CatsWithId(id) == SelectSeq(allCats, LAMBDA cat : cat.id = id /\ id # NoId)

\* C16: handleAdoptClick opens the adoption modal, for the cat it found, only
\* when currentUser has an id, the cat id is found in allCats and that cat is
\* not adopted; in each failing case it alerts and leaves the adoption modal
\* and pendingAdoptionCat as they are, and without a login it opens the login
\* modal too.
C16_AdoptClickOpensOnlyWhenAllowed ==
    [][ (last'.op = "handleAdoptClick" /\ last'.kind = "user" /\ sent' = NoReq
           /\ last'.args # NoArgs) =>
          LET found == CatsWithId(ClickedId(last'))
              allowed == /\ currentUser.id # 0
                         /\ found # <<>>
                         /\ ~found[1].is_adopted
          IN  IF allowed
              THEN /\ ~last'.alert
                   /\ modal' = openModal(modal, "adoption")
                   /\ pendingAdoptionCat' = found[1]
              ELSE /\ last'.alert
                   /\ modal'["adoption"] = modal["adoption"]
                   /\ pendingAdoptionCat' = pendingAdoptionCat
                   /\ modal' = IF currentUser.id = 0 THEN openModal(modal, "login") ELSE modal
      ]_vars

\* a logged-in visitor clicked the card of the second cat with id 2; the cat
\* found is the first one, which is adopted: alert, nothing opened
C16_Witness ==
    /\ last.op = "handleAdoptClick" /\ last.args = ClickArgs(2)
    /\ currentUser.id # 0
    /\ allCats = <<Cat2, CatTwin, Cat1>>
    /\ last.alert /\ ~modal["adoption"] /\ pendingAdoptionCat = NoCat

\* ---- C17 -----------------------------------------------------------------
\* C17: submitAdoptionForm sends POST /api/cats/<id>/adopt, with the id of the
\* pending cat, exactly when a cat is pending and the trimmed contact field is
\* not empty; otherwise it sends nothing and shows an error status. Neither
\* the submission nor its response changes allCats or the pending cat.
C17_SubmitSendsForThePendingCat ==
    [][ /\ (last'.kind = "user" /\ last'.op = "adopt") =>
              IF pendingAdoptionCat # NoCat /\ Trim(last'.args.text) # <<>>
              THEN /\ sent' \in inflight' /\ sent' \notin inflight
                   /\ sent'.ep = "adopt" /\ sent'.cat = pendingAdoptionCat.id
              ELSE /\ sent' = NoReq /\ inflight' = inflight
                   /\ last'.status
                   /\ adoptionStatus'.text \in {"cat-not-found", "contact-required"}
        /\ last'.op = "adopt" =>
              (allCats' = allCats /\ pendingAdoptionCat' = pendingAdoptionCat)
      ]_vars

\* the application for cat 1 has been accepted by the server: the cat is still
\* pending and still not adopted in allCats
C17_Witness ==
    /\ settled.ep = "adopt" /\ settled.cat = 1 /\ ~last.err
    /\ adoptionStatus.text = "submitted"
    /\ pendingAdoptionCat = Cat1
    /\ allCats = ServedCats

\* ---- C18 -----------------------------------------------------------------
\* C18: handleLogin sends POST /api/login exactly when email and password are
\* both non-empty and the email passes validateEmail (otherwise it alerts and
\* sends nothing); when the login fails an alert is shown, the login modal
\* stays as it is and the page keeps showing what it showed: .user-info, the
\* buttons and currentUser are untouched.
C18_LoginSendsValidFormsFailureChangesNothing ==
    [][ /\ (last'.kind = "user" /\ last'.op = "login") =>
              IF /\ last'.args.email # <<>> /\ last'.args.password # <<>>
                 /\ validateEmail(last'.args.email)
              THEN /\ sent' \in inflight' /\ sent' \notin inflight
                   /\ sent'.ep = "login" /\ sent'.email = last'.args.email
              ELSE sent' = NoReq /\ inflight' = inflight /\ last'.alert
        /\ (settled' # NoReq /\ settled'.ep = "login" /\ last'.err) =>
              /\ last'.alert
              /\ UNCHANGED <<modal, userInfo, loginBtn, uploadBtn, adminBtn,
                             currentUser, session, loginDone>>
      ]_vars

\* a login has failed: the alert, and the login modal still displayed on a
\* page that shows nobody as logged in
C18_Witness ==
    /\ settled.ep = "login" /\ last.err /\ last.alert
    /\ modal["login"]
    /\ userInfo = "none" /\ loginBtn /\ ~loginDone

AnswerStatus == last.args.text[1]
AnswerBody   == last.args.text[2]
RecognizeAnswered == last.kind = "response" /\ last.op = "recognize" /\ last.args # NoArgs

\* C20: on 401 the status shows the login-required message, the login modal
\* is open and the results are not touched; on any other answer that is not
\* OK the status shows the server's error text, or the default failure text
\* when the answer carries none, and the results are not touched either.
C20_NotOkAnswersShowTheirError ==
    [][ (RecognizeAnswered' /\ AnswerStatus' \notin {"200"}) =>
            /\ recognitionResults' = recognitionResults
            /\ AnswerStatus' = "401" =>
                  /\ recognitionStatus'.text = "login-required"
                  /\ modal'["login"]
            /\ AnswerStatus' # "401" =>
                  recognitionStatus'.text = IF AnswerBody' \in {"error", "error-not-logged-in"}
                                            THEN ErrorOrDefault(AnswerBody')
                                            ELSE "recognition-failed"
      ]_vars

\* teardownMobileCommandCenter has run on this page and no panel has been
\* injected since
PanelTornDown == panelListeners /\ ~mobilePanel

\* C21: once the panel has been torn down, and for as long as it is absent,
\* no stream of the mobile camera has a running track, mobileCommandStream is
\* null, no cruise interval is set and mobileAutoActive is false, also when
\* the camera is granted after the teardown.
C21_NothingRunsAfterTeardown ==
    PanelTornDown =>
        /\ \A i \in 1..Len(mobileTracks) : mobileTracks[i] = "stopped"
        /\ mobileCommandStream = NoStream
        /\ ~mobileAutoTimer /\ mobileIntervals = 0
        /\ ~mobileAutoActive

\* a step in which retreatMobilePanelToDesktop passes its guard
RetreatActs == ~mobilePanelRetreated /\ mobilePanelRetreated' /\ last'.kind # "load"

\* a step in which retreatMobilePanelToDesktop is called once more
RetreatAgain == mobilePanelRetreated /\ last'.op = "retreatMobilePanelToDesktop"

\* a step that loads the page while the session storage holds the flag
LoadWithFlag == last'.kind = "load" /\ mobileUI /\ storageAvailable /\ storedFlag

\* the retreat as the claim words it, whatever the session storage does: after
\* a retreat mobilePanelRetreated is true and the storage holds the flag.
C22_RetreatIsStored ==
    [][ RetreatActs => (mobilePanelRetreated' /\ storedFlag') ]_vars

\* C22: where the session storage can be used, a retreat leaves
\* mobilePanelRetreated true and the flag in the storage; in every browser a
\* further retreat changes nothing of the panel, and a page load that finds
\* the flag injects no panel and shows the cruise FAB.
C22_RetreatIsStoredWhereStorageWorks ==
    [][ /\ RetreatActs => (mobilePanelRetreated' /\ (storageAvailable => storedFlag'))
        /\ RetreatAgain => UNCHANGED <<mobVars, panelVars, timers>>
        /\ LoadWithFlag => (mobilePanelRetreated' /\ ~mobilePanel' /\ fabShown' /\ storedFlag')
      ]_vars

\* the page was loaded after a retreat: the flag is read, no panel, the FAB
C22_Witness ==
    /\ last.kind = "load"
    /\ storageAvailable /\ storedFlag
    /\ mobilePanelRetreated /\ ~mobilePanel /\ fabShown

\* the drag offset stays within 0..MaxDragOffset
OffsetInRange == currentOffset' \in 0..MaxDragOffset

\* a drag starts only with one finger on the screen that was pulled down by
\* DragThreshold or more, the panel being scrolled to its top
DragStartsByPull ==
    (~dragging /\ dragging') =>
        /\ Len(touches') = 1
        /\ touches'[1].y - touches'[1].start >= DragThreshold
        /\ panelScrollTop = 0

\* a release during a drag retreats exactly when the offset is above
\* RetreatThreshold and otherwise leaves the panel at rest
ReleaseCommits ==
    (dragging /\ last'.op = "handleEnd") =>
        /\ ~dragging' /\ currentOffset' = 0
        /\ IF currentOffset > RetreatThreshold
           THEN mobilePanelRetreated'
           ELSE UNCHANGED <<mobilePanelRetreated, storedFlag, desktopMode, fabShown>>

\* C23: the drag offset is always within 0..200; a drag starts only for a
\* single-touch downward pull of at least 8 px while the panel is scrolled to
\* its top; on release the panel retreats exactly when the offset is above
\* 120 and otherwise returns to rest with dragging false and offset 0.
C23_DragIsBoundedAndDeliberate ==
    [][ OffsetInRange /\ DragStartsByPull /\ ReleaseCommits ]_vars

\* a step of reactivateMobileCruisePanel
Reactivates == fabShown /\ last'.op = "reactivateMobileCruisePanel"

\* C24: after reactivateMobileCruisePanel mobilePanelRetreated is false, the
\* stored flag and the desktop class are removed and the panel is on the
\* page; and a panel that is on the page while mobilePanelRetreated is false
\* stays there in every step that is not a retreat, also when the teardown
\* and reload timers of the previous retreat are still to come.
C24_ReactivatedPanelStays ==
    [][ /\ Reactivates =>
              /\ ~mobilePanelRetreated'
              /\ ~isMobilePanelRetreatedInStorage'
              /\ ~desktopMode'
              /\ mobilePanel'
        /\ (mobilePanel /\ ~mobilePanelRetreated /\ ~mobilePanelRetreated') => mobilePanel'
      ]_vars

\* C25: between callbacks the cruise timer is set exactly when mobileAutoActive
\* is true, mobileAutoActive implies that a stream is held, and at most one
\* interval is running, whatever the order of auto clicks, snapshots, page
\* hiding, camera grants and denials, and teardown.
C25_OneLoopExactlyWhileActive ==
    /\ mobileAutoTimer <=> mobileAutoActive
    /\ mobileAutoActive => mobileCommandStream # NoStream
    /\ mobileIntervals <= 1
    /\ mobileIntervals = (IF mobileAutoTimer THEN 1 ELSE 0)

\* the cruise loop runs on a second stream: two grants were needed
C25_Witness ==
    /\ mobileAutoActive /\ mobileIntervals = 1
    /\ Len(mobileTracks) = 2
    /\ mobileCommandStream # NoStream

\* C26: the adoption modal is displayed exactly when pendingAdoptionCat is
\* set, and the pending cat is one of allCats that is not marked adopted.
C26_ModalShowsThePendingCat ==
    /\ modal["adoption"] <=> pendingAdoptionCat # NoCat
    /\ pendingAdoptionCat # NoCat =>
          \E i \in 1..Len(allCats) :
              allCats[i] = pendingAdoptionCat /\ ~allCats[i].is_adopted

\* the application was accepted and the modal is still open on its cat
C26_Witness ==
    /\ modal["adoption"] /\ pendingAdoptionCat # NoCat
    /\ adoptionStatus.text = "submitted"
    /\ timers["closeAdoption"] > 0

=============================================================================
